---------------------------- MODULE Spec2Model ----------------------------
(***************************************************************************)
(* A model of the transaction host of miden-tx (src/miden-tx/src/host):    *)
(* the host callbacks the VM drives (on_event, set_advice's signature      *)
(* request, into_parts), the account delta tracker and the output-note     *)
(* builders they write, and the BasicAuthenticator they call.              *)
(*                                                                         *)
(* One execution is one behaviour: the kernel emits events whose operand   *)
(* stack mirrors the VM-side account state (vm), the host handles each to  *)
(* completion, a callback error aborts the run, a failed assertion panics, *)
(* and into_parts consumes the host.                                       *)
(***************************************************************************)
EXTENDS Integers, Sequences, FiniteSets, TLC

\* ------------------------------------------------------------------ bounds

\* Callbacks of one execution in the full specification.
MaxEvents == 2
\* Callbacks of one execution in the focused specifications (account
\* events only, note events only, signature requests only).
MaxDeltaEvents == 5
MaxNoteEvents == 5
MaxSigRequests == 4
MaxStorageEvents == 4
\* Callbacks of one execution in the specification of every callback.
MaxCallbacks == 2
\* Note events of one execution in the specification of the asset bound:
\* the creation, the assets up to the bound and one more.
MaxAssetEvents == 257
\* Procedure index requests of one execution.
MaxProcEvents == 6
\* Advice requests of one execution in the specification of the advice.
MaxAdviceRequests == 4
\* Trace markers of one execution in the specification of the traces.
MaxTraces == 3

\* Largest nonce value the kernel puts on the stack.
MaxNonce == 2

\* --------------------------------------------------------- program constants

\* AccountStorage::NUM_STORAGE_SLOTS, the bound of the slot index check.
NUM_STORAGE_SLOTS == 256

\* ------------------------------------------------------------------ values

\* Storage words (4 field elements each).
W0001 == <<0, 0, 0, 1>>
W1000 == <<1, 0, 0, 0>>
Words == {W0001, W1000}

\* Slot indices the kernel may put on the stack: two valid, one out of range.
ValidSlots == {0, NUM_STORAGE_SLOTS - 1}
SlotInputs == ValidSlots \cup {NUM_STORAGE_SLOTS}
\* Indices out of range whose low 8 bits are those of a valid index.
InvalidSlots ==
    {NUM_STORAGE_SLOTS, NUM_STORAGE_SLOTS + 1, 2 * NUM_STORAGE_SLOTS - 1,
     2 * NUM_STORAGE_SLOTS, 65536}

\* Execution contexts: ContextId::root() is 0.
ROOT == 0
Contexts == {ROOT, 1}

\* Stack words of asset events: what Asset::try_from reconstructs from them.
FaucetF == "F"
Amounts == {1, 100}
NonFungibles == {"nft"}
FungibleAsset(f, a) == [kind |-> "fungible", id |-> f, amount |-> a]
NonFungibleAsset(d) == [kind |-> "non_fungible", id |-> d, amount |-> 1]
MalformedWord == [kind |-> "malformed", id |-> "-", amount |-> 0]
AssetWords ==
    {FungibleAsset(FaucetF, a) : a \in Amounts}
        \cup {NonFungibleAsset(d) : d \in NonFungibles}
        \cup {MalformedWord}
AssetKeys == {FaucetF} \cup NonFungibles

\* Option<Felt>.
None == [some |-> FALSE, val |-> 0]
Some(v) == [some |-> TRUE, val |-> v]

\* BTreeMap as a function on its key set.
EmptyMap == [k \in {} |-> 0]
Put(m, k, v) == [x \in (DOMAIN m) \cup {k} |-> IF x = k THEN v ELSE m[x]]
Del(m, k) == [x \in (DOMAIN m) \ {k} |-> m[x]]

\* Result<Vec<Felt>, AuthenticationError> as the host last received it.
NoCall == [ok |-> FALSE, err |-> "-"]

\* HostResponse: what a callback hands back to the VM.
HostResponse_None == [kind |-> "None", val |-> <<>>]
HostResponse_Element(v) == [kind |-> "Element", val |-> <<v>>]
HostResponse_Word(w) == [kind |-> "Word", val |-> w]

\* ExecutionError::FailedAssertion { clk, err_code, err_msg }.
NoAssertion == [clk |-> 0, err_code |-> 0, err_msg |-> "-"]

\* Errors: the variant and what its payload says.
NoError == [kind |-> "none", detail |-> "-", event |-> "-"]
Err(kind, detail, event) == [kind |-> kind, detail |-> detail, event |-> event]

VARIABLES
    pc,                   \* "running" | "aborted" | "panicked" | "finalized"
    error,                \* the error or panic that ended the run
    fuel,                 \* callbacks the VM may still make
    vm,                   \* VM-side account state the kernel's stacks mirror
    account_delta,        \* AccountDeltaTracker
    output_notes,         \* BTreeMap<usize, OutputNoteBuilder>
    adv_stack,            \* the advice provider's stack, top last
    adv_map,              \* the advice provider's key -> values map
    authenticator,        \* Option<Rc<T>>: [present, keys]
    rng,                  \* draws made from the authenticator's RefCell<R>
    generated_signatures, \* BTreeMap<Digest, Vec<Felt>>
    acct_procedure_index_map, \* AccountProcedureIndexMap's cache
    tx_progress,          \* TransactionProgress
    auth_calls,           \* history: get_signature invocations per key
    auth_ret,             \* history: what the last get_signature returned
    adv_ret,              \* history: the response to the last forwarded advice request
    assertion,            \* the FailedAssertion on_assert_failed returned
    acct,                 \* a caller of the AccountId constructors
    parts,                \* what into_parts returned
    hist                  \* history: what the execution has asked for so far

vars ==
    <<pc, error, fuel, vm, account_delta, output_notes, adv_stack, adv_map,
      authenticator, rng, generated_signatures, acct_procedure_index_map,
      tx_progress, auth_calls, auth_ret, adv_ret, assertion, acct, parts,
      hist>>

\* The host's mutable fields as one value, for handlers to return.
Host ==
    [account_delta |-> account_delta,
     output_notes |-> output_notes,
     adv_stack |-> adv_stack,
     generated_signatures |-> generated_signatures,
     acct_procedure_index_map |-> acct_procedure_index_map,
     tx_progress |-> tx_progress,
     rng |-> rng,
     auth_calls |-> auth_calls,
     auth_ret |-> auth_ret,
     adv_ret |-> adv_ret]

\* A handler's outcome: Ok(()), Err(e), or a panic, with the host it leaves.
Ok(h) == [status |-> "ok", err |-> NoError, host |-> h, assertion |-> assertion]
Fail(e, h) == [status |-> "err", err |-> e, host |-> h, assertion |-> assertion]
Panic(msg, h) ==
    [status |-> "panic", err |-> Err("panic", msg, "-"), host |-> h,
     assertion |-> assertion]

\* ------------------------------------------------- account delta tracker
\* (account_delta_tracker.rs is not among the sources: modelled from the
\* specification's sections 3 and 4.1)

AccountDeltaTracker_new ==
    [nonce_delta |-> None,
     slot_updates |-> EmptyMap,
     maps_updates |-> EmptyMap,
     fungible |-> EmptyMap,
     non_fungible |-> EmptyMap]

\* "sets/overwrites nonce delta"
increment_nonce(t, value) == [t EXCEPT !.nonce_delta = Some(value)]

\* "mapping from slot index to last-observed 4-element value"
slot_update(t, slot_index, new_value) ==
    [t EXCEPT !.slot_updates = Put(@, slot_index, new_value)]

\* "unconditionally records the (key -> value) pair for the slot's map"
maps_update(t, slot_index, key, value) ==
    [t EXCEPT !.maps_updates =
        Put(@, slot_index,
            Put(IF slot_index \in DOMAIN @ THEN @[slot_index] ELSE EmptyMap,
                key, value))]

\* "update-in-place (+amount or -amount)", an entry whose net is zero removed
update_asset_delta(m, key, amount) ==
    IF key \notin DOMAIN m THEN Put(m, key, amount)
    ELSE IF m[key] = -amount THEN Del(m, key)
    ELSE Put(m, key, m[key] + amount)

vault_add_asset(t, asset) ==
    IF asset.kind = "fungible"
    THEN [t EXCEPT !.fungible = update_asset_delta(@, asset.id, asset.amount)]
    ELSE [t EXCEPT !.non_fungible = update_asset_delta(@, asset.id, 1)]

vault_remove_asset(t, asset) ==
    IF asset.kind = "fungible"
    THEN [t EXCEPT !.fungible = update_asset_delta(@, asset.id, -asset.amount)]
    ELSE [t EXCEPT !.non_fungible = update_asset_delta(@, asset.id, -1)]

\* "consumes and returns the immutable diff"
into_delta(t) ==
    [nonce |-> t.nonce_delta,
     storage |-> t.slot_updates,
     maps |-> t.maps_updates,
     vault |-> [fungible |-> t.fungible, non_fungible |-> t.non_fungible]]

\* ------------------------------------------------------------ conversions

\* `x as u8`
AsU8(x) == x % 256

\* Asset::try_from(word)
AssetTryFrom(word) ==
    IF word.kind = "malformed"
    THEN [ok |-> FALSE, asset |-> word]
    ELSE [ok |-> TRUE, asset |-> word]

\* ------------------------------------------------ account event handlers

\* As the handler below, adding the value to the nonce delta recorded so far.
on_account_before_increment_nonce_accumulating(stack) ==
    Ok([Host EXCEPT !.account_delta.nonce_delta = Some(@.val + stack.value)])

on_account_before_increment_nonce(stack) ==
    Ok([Host EXCEPT !.account_delta = increment_nonce(@, stack.value)])

\* As the handler below, with the two stack words read from each other's
\* offsets.
on_account_storage_after_set_item_swapped(stack) ==
    IF stack.slot >= NUM_STORAGE_SLOTS
    THEN Fail(Err("InvalidStorageSlotIndex", ToString(stack.slot), "-"), Host)
    ELSE IF stack.cur # stack.new
    THEN Ok([Host EXCEPT !.account_delta =
                slot_update(@, AsU8(stack.slot), stack.cur)])
    ELSE Ok(Host)

\* As the handler below, without the comparison of the two values.
on_account_storage_after_set_item_unconditional(stack) ==
    IF stack.slot >= NUM_STORAGE_SLOTS
    THEN Fail(Err("InvalidStorageSlotIndex", ToString(stack.slot), "-"), Host)
    ELSE Ok([Host EXCEPT !.account_delta =
                slot_update(@, AsU8(stack.slot), stack.new)])

on_account_storage_after_set_item(stack) ==
    IF stack.slot >= NUM_STORAGE_SLOTS
    THEN Fail(Err("InvalidStorageSlotIndex", ToString(stack.slot), "-"), Host)
    ELSE IF stack.cur # stack.new
    THEN Ok([Host EXCEPT !.account_delta =
                slot_update(@, AsU8(stack.slot), stack.new)])
    ELSE Ok(Host)

\* As the handler below, with > where the check has >=.
on_account_storage_after_set_map_item_off_by_one(stack) ==
    IF stack.slot > NUM_STORAGE_SLOTS
    THEN Fail(Err("InvalidStorageSlotIndex", ToString(stack.slot), "-"), Host)
    ELSE Ok([Host EXCEPT !.account_delta =
                maps_update(@, AsU8(stack.slot), stack.key, stack.new)])

\* As the handler below, keeping the value a key already has.
on_account_storage_after_set_map_item_first_wins(stack) ==
    IF stack.slot >= NUM_STORAGE_SLOTS
    THEN Fail(Err("InvalidStorageSlotIndex", ToString(stack.slot), "-"), Host)
    ELSE IF /\ AsU8(stack.slot) \in DOMAIN account_delta.maps_updates
            /\ stack.key \in DOMAIN account_delta.maps_updates[AsU8(stack.slot)]
    THEN Ok(Host)
    ELSE Ok([Host EXCEPT !.account_delta =
                maps_update(@, AsU8(stack.slot), stack.key, stack.new)])

on_account_storage_after_set_map_item(stack) ==
    IF stack.slot >= NUM_STORAGE_SLOTS
    THEN Fail(Err("InvalidStorageSlotIndex", ToString(stack.slot), "-"), Host)
    ELSE Ok([Host EXCEPT !.account_delta =
                maps_update(@, AsU8(stack.slot), stack.key, stack.new)])

\* As the handler below, without the write to the vault tracker.
on_account_vault_after_add_asset_dropped(stack) ==
    LET r == AssetTryFrom(stack.asset)
    IN  IF ~r.ok
        THEN Fail(Err("MalformedAssetOnAccountVaultUpdate", "asset", "-"), Host)
        ELSE Ok(Host)

on_account_vault_after_add_asset(stack) ==
    LET r == AssetTryFrom(stack.asset)
    IN  IF ~r.ok
        THEN Fail(Err("MalformedAssetOnAccountVaultUpdate", "asset", "-"), Host)
        ELSE Ok([Host EXCEPT !.account_delta = vault_add_asset(@, r.asset)])

\* As the handler below, calling add_asset where it calls remove_asset.
on_account_vault_after_remove_asset_adds(stack) ==
    on_account_vault_after_add_asset(stack)

on_account_vault_after_remove_asset(stack) ==
    LET r == AssetTryFrom(stack.asset)
    IN  IF ~r.ok
        THEN Fail(Err("MalformedAssetOnAccountVaultUpdate", "asset", "-"), Host)
        ELSE Ok([Host EXCEPT !.account_delta = vault_remove_asset(@, r.asset)])


\* ------------------------------------------------------ output note builder
\* (note_builder.rs is not among the sources: modelled from the
\* specification's sections 3 and 4.2)

\* Note metadata the kernel puts on the stack at creation; the last one is
\* a stack from which no note can be built.
NoteMetas == {"m1", "m2"}
MalformedMeta == "malformed"

OutputNoteBuilder_new(stack) ==
    IF stack.meta = MalformedMeta
    THEN [ok |-> FALSE, builder |-> [meta |-> stack.meta, assets |-> <<>>]]
    ELSE [ok |-> TRUE, builder |-> [meta |-> stack.meta, assets |-> <<>>]]

\* "the protocol's per-note asset-count bound"
MAX_NUM_ASSETS == 255

\* As add_asset below, with no bound on the list.
builder_add_asset_unbounded(b, asset) ==
    [ok |-> TRUE, builder |-> [b EXCEPT !.assets = Append(@, asset)]]

\* "add_asset(asset) appends, enforcing the cumulative asset list stays
\* within the protocol's per-note asset-count bound"
builder_add_asset(b, asset) ==
    IF Len(b.assets) >= MAX_NUM_ASSETS
    THEN [ok |-> FALSE, builder |-> b]
    ELSE [ok |-> TRUE, builder |-> [b EXCEPT !.assets = Append(@, asset)]]

\* "build() finalizes into an immutable note/output-note value"
build(b) == [meta |-> b.meta, assets |-> b.assets]

\* --------------------------------------------------- note event handlers

\* As the handler below, without the assertion on the note index.
on_note_after_created_unchecked(stack) ==
    LET r == OutputNoteBuilder_new(stack)
    IN  IF ~r.ok
        THEN Fail(Err("MalformedNoteMetadata", "note", "-"), Host)
        ELSE Ok([Host EXCEPT !.output_notes = Put(@, stack.note_idx, r.builder)])

on_note_after_created(stack) ==
    IF stack.note_idx # Cardinality(DOMAIN output_notes)
    THEN Panic("note index mismatch", Host)
    ELSE LET r == OutputNoteBuilder_new(stack)
         IN  IF ~r.ok
             THEN Fail(Err("MalformedNoteMetadata", "note", "-"), Host)
             ELSE Ok([Host EXCEPT !.output_notes =
                         Put(@, stack.note_idx, r.builder)])

\* As the handler below, reading the note index from a stack element that
\* holds 0.
on_note_before_add_asset_wrong_index(stack) ==
    IF ~(stack.note_idx < Cardinality(DOMAIN output_notes))
    THEN Panic("assertion failed: note_idx < self.output_notes.len() as u64", Host)
    ELSE LET r == AssetTryFrom(stack.asset)
         IN  IF ~r.ok
             THEN Fail(Err("MalformedAsset", "asset", "-"), Host)
             ELSE LET added == builder_add_asset(output_notes[0], r.asset)
                  IN  IF ~added.ok
                      THEN Fail(Err("FailedToAddAssetToNote", "assets", "-"),
                                Host)
                      ELSE Ok([Host EXCEPT !.output_notes[0] = added.builder])

on_note_before_add_asset(stack) ==
    IF ~(stack.note_idx < Cardinality(DOMAIN output_notes))
    THEN Panic("assertion failed: note_idx < self.output_notes.len() as u64", Host)
    ELSE LET r == AssetTryFrom(stack.asset)
         IN  IF ~r.ok
             THEN Fail(Err("MalformedAsset", "asset", "-"), Host)
             ELSE IF stack.note_idx \notin DOMAIN output_notes
             THEN Fail(Err("MissingNote", "note_idx", "-"), Host)
             ELSE LET added == builder_add_asset(output_notes[stack.note_idx],
                                                 r.asset)
                  IN  IF ~added.ok
                      THEN Fail(Err("FailedToAddAssetToNote", "assets", "-"),
                                Host)
                      ELSE Ok([Host EXCEPT
                                  !.output_notes[stack.note_idx] = added.builder])

\* ------------------------------------------------ account procedure index
\* (account_procs.rs is not among the sources: modelled from the
\* specification's sections 3 and 4.3)

\* The account's procedure tree: procedure root -> index.
ProcTree == [p \in {"p0", "p1"} |-> IF p = "p0" THEN 0 ELSE 1]
ProcRoots == (DOMAIN ProcTree) \cup {"px"}

\* As get_proc_index below, with the index of a root taken from the order
\* in which the roots were first asked for.
get_proc_index_by_arrival(cache, root) ==
    IF root \in DOMAIN cache
    THEN [ok |-> TRUE, idx |-> cache[root], cache |-> cache]
    ELSE IF root \in DOMAIN ProcTree
    THEN [ok |-> TRUE, idx |-> Cardinality(DOMAIN cache),
          cache |-> Put(cache, root, Cardinality(DOMAIN cache))]
    ELSE [ok |-> FALSE, idx |-> 0, cache |-> cache]

\* AccountProcedureIndexMap::get_proc_index
get_proc_index(cache, root) ==
    IF root \in DOMAIN cache
    THEN [ok |-> TRUE, idx |-> cache[root], cache |-> cache]
    ELSE IF root \in DOMAIN ProcTree
    THEN [ok |-> TRUE, idx |-> ProcTree[root],
          cache |-> Put(cache, root, ProcTree[root])]
    ELSE [ok |-> FALSE, idx |-> 0, cache |-> cache]

\* An advice-stack element: a tagged value.
Elt(tag, key, msg, r, i) == [tag |-> tag, key |-> key, msg |-> msg, r |-> r, i |-> i]

on_account_push_procedure_index(stack) ==
    LET g == get_proc_index(acct_procedure_index_map, stack.proc_root)
    IN  IF ~g.ok
        THEN Fail(Err("UnknownAccountProcedure", "proc_root", "-"), Host)
        ELSE Ok([Host EXCEPT
                    !.acct_procedure_index_map = g.cache,
                    !.adv_stack = Append(@, Elt("proc_idx", "-", "-", 0, g.idx))])


\* ------------------------------------------------------------ authenticator

PubKeys == {"K1", "K2"}
Msgs == {"M1", "M2"}

\* Hasher::merge(&[pub_key, msg]): collision free on the model's inputs.
SignatureKey(pub_key, msg) == <<pub_key, msg>>

Reverse(s) == [i \in 1..Len(s) |-> s[Len(s) + 1 - i]]

\* The nonce (two of its eight elements), the expanded public key h, the
\* signature polynomial s2 and the product pi: each drawn with randomness r
\* where the primitive uses it.
FalconBlocks(key, msg, r) ==
    <<Elt("nonce", "-", "-", r, 0), Elt("nonce", "-", "-", r, 1),
      Elt("h", key, "-", 0, 0),
      Elt("s2", key, msg, r, 0),
      Elt("pi", key, msg, r, 0)>>

\* As get_falcon_signature below, without the final result.reverse().
get_falcon_signature_unreversed(key, msg, r) ==
    [ok |-> TRUE, sig |-> FalconBlocks(key, msg, r), err |-> "-", rng |-> r + 1]

\* Returns the elements and the state of the random generator after the draw.
get_falcon_signature(key, msg, r) ==
    [ok |-> TRUE, sig |-> Reverse(FalconBlocks(key, msg, r)), err |-> "-",
     rng |-> r + 1]

\* As get_signature below, by an authenticator that reviews the delta and
\* signs only while the account's storage is untouched.
get_signature_reviewing(auth, pub_key, message, delta, r) ==
    IF pub_key \in auth.keys /\ delta.storage = EmptyMap
    THEN get_falcon_signature(pub_key, message, r)
    ELSE [ok |-> FALSE, sig |-> <<>>, err |-> "UnknownKey", rng |-> r]

\* BasicAuthenticator::get_signature
get_signature(auth, pub_key, message, delta, r) ==
    IF pub_key \in auth.keys
    THEN get_falcon_signature(pub_key, message, r)
    ELSE [ok |-> FALSE, sig |-> <<>>, err |-> "UnknownKey", rng |-> r]

\* As unit_get_signature below, returning elements.
unit_get_signature_signing(pub_key, message, delta, r) ==
    [ok |-> TRUE, sig |-> <<Elt("s2", pub_key, message, r, 0)>>, err |-> "-",
     rng |-> r]

\* impl TransactionAuthenticator for (): there is no random generator to
\* draw from, r is returned as it came.
unit_get_signature(pub_key, message, delta, r) ==
    [ok |-> FALSE, sig |-> <<>>, err |-> "RejectedSignature", rng |-> r]

\* authenticator.get_signature(..), by the type the host was built with.
authenticator_get_signature(auth, pub_key, message, delta, r) ==
    IF auth.kind = "unit"
    THEN unit_get_signature(pub_key, message, delta, r)
    ELSE get_signature(auth, pub_key, message, delta, r)

\* ------------------------------------------------------ signature requests

Count(calls, k) == IF k \in DOMAIN calls THEN calls[k] ELSE 0

PushAll(stk, values) == stk \o values

\* on_signature_requested below with one of its steps changed: the advice
\* map not consulted, a host without authenticator answering with nothing,
\* or the signature's entry made before the authenticator is asked.
signature_requested_variant(stack, consult_map, skip, reserve) ==
    LET signature_key == SignatureKey(stack.pk, stack.msg)
        reserved == IF reserve
                    THEN [Host EXCEPT
                             !.generated_signatures = Put(@, signature_key, <<>>)]
                    ELSE Host
    IN  IF consult_map /\ signature_key \in DOMAIN adv_map
        THEN Ok([Host EXCEPT !.adv_stack = PushAll(@, adv_map[signature_key])])
        ELSE
        LET delta == into_delta(account_delta)
        IN  IF authenticator.kind = "none"
            THEN IF skip THEN Ok(Host)
                 ELSE Fail(Err("FailedSignatureGeneration",
                               "No authenticator assigned to transaction host",
                               "-"),
                           reserved)
            ELSE
            LET g == authenticator_get_signature(authenticator, stack.pk,
                                                 stack.msg, delta, rng)
                called == [reserved EXCEPT
                              !.auth_calls =
                                  Put(@, signature_key, Count(@, signature_key) + 1),
                              !.auth_ret = [ok |-> g.ok, err |-> g.err],
                              !.rng = g.rng]
            IN  IF ~g.ok
                THEN Fail(Err("FailedSignatureGeneration",
                              "Error generating signature", "-"),
                          called)
                ELSE Ok([called EXCEPT
                            !.generated_signatures = Put(@, signature_key, g.sig),
                            !.adv_stack = PushAll(@, g.sig)])

on_signature_requested_reserving(stack) ==
    signature_requested_variant(stack, TRUE, FALSE, TRUE)

on_signature_requested_always_signs(stack) ==
    signature_requested_variant(stack, FALSE, FALSE, FALSE)

on_signature_requested_skipping(stack) ==
    signature_requested_variant(stack, TRUE, TRUE, FALSE)

on_signature_requested(stack) ==
    LET signature_key == SignatureKey(stack.pk, stack.msg)
    IN  IF signature_key \in DOMAIN adv_map
        THEN Ok([Host EXCEPT !.adv_stack = PushAll(@, adv_map[signature_key])])
        ELSE
        LET delta == into_delta(account_delta)
        IN  IF authenticator.kind = "none"
            THEN Fail(Err("FailedSignatureGeneration",
                          "No authenticator assigned to transaction host", "-"),
                      Host)
            ELSE
            LET g == authenticator_get_signature(authenticator, stack.pk,
                                                 stack.msg, delta, rng)
                called == [Host EXCEPT
                              !.auth_calls =
                                  Put(@, signature_key, Count(@, signature_key) + 1),
                              !.auth_ret = [ok |-> g.ok, err |-> g.err],
                              !.rng = g.rng]
            IN  IF ~g.ok
                THEN Fail(Err("FailedSignatureGeneration",
                              "Error generating signature", "-"),
                          called)
                ELSE Ok([called EXCEPT
                            !.generated_signatures = Put(@, signature_key, g.sig),
                            !.adv_stack = PushAll(@, g.sig)])

\* AdviceProvider::set_advice for an injector the host does not intercept
\* (the VM's MapValueToStack: push the values mapped to the key on the stack).
adv_provider_set_advice(injector, stack) ==
    LET key == SignatureKey(stack.pk, stack.msg)
    IN  IF key \in DOMAIN adv_map
        THEN Ok([Host EXCEPT !.adv_stack = PushAll(@, adv_map[key]),
                             !.adv_ret = HostResponse_None])
        ELSE Fail(Err("AdviceMapKeyNotFound", "key", "-"), Host)

Injectors == {"SigToStack", "MapValueToStack"}

\* AdviceProvider::get_advice (the VM's PopStack and PopStackWord: take one
\* element, or four, from the top of the advice stack and return them).
adv_provider_get_advice(extractor) ==
    LET n == IF extractor = "PopStack" THEN 1 ELSE 4
        len == Len(adv_stack)
    IN  IF len < n
        THEN Fail(Err("AdviceStackReadFailed", "empty", "-"), Host)
        ELSE Ok([Host EXCEPT
                    !.adv_stack = SubSeq(adv_stack, 1, len - n),
                    !.adv_ret =
                        IF n = 1 THEN HostResponse_Element(adv_stack[len])
                        ELSE HostResponse_Word(
                                 [i \in 1..4 |-> adv_stack[len + 1 - i]])])

Extractors == {"PopStack", "PopStackWord"}

\* Host::get_advice
get_advice(extractor) == adv_provider_get_advice(extractor)

\* As set_advice below, with every injector taken for a signature request.
set_advice_intercepting_all(injector, stack) == on_signature_requested(stack)

\* Host::set_advice
set_advice(injector, stack) ==
    IF injector = "SigToStack"
    THEN on_signature_requested(stack)
    ELSE adv_provider_set_advice(injector, stack)

\* ------------------------------------------------------- assertion failures

\* The kernel's assertion codes and their names, in the order of the array.
ERROR_MESSAGES ==
    <<
      <<131133, "ERR_ACCOUNT_CODE_MUST_BE_UPDATABLE">>,
      <<131132, "ERR_ACCOUNT_ID_INVALID_INSUFFICIENT_NUMBER_OF_ONES">>,
      <<131073, "ERR_ACCOUNT_MUST_BE_A_FAUCET_TO_CALL_PROCEDURE">>,
      <<131131, "ERR_ACCOUNT_NONCE_INCREASE_MUST_BE_U32_VALUE">>,
      <<131135, "ERR_ACCOUNT_POW_IS_INSUFFICIENT">>,
      <<131134, "ERR_ACCOUNT_SEED_DIGEST_MISMATCH">>,
      <<131081, "ERR_NONCE_DID_NOT_INCREASE_AFTER_STATE_CHANGED">>,
      <<131117, "ERR_VAULT_ADDING_FUNGIBLE_ASSET_WOULD_EXCEED_MAX_AMOUNT_OF_9223372036854775807">>,
      <<131118, "ERR_VAULT_ADD_FUNGIBLE_ASSET_TO_ACCOUNT_FAILED_INITIAL_VALUE_INVALID">>,
      <<131115, "ERR_VALUT_GET_BALANCE_PROC_CAN_BE_CALLED_ONLY_WITH_FUNGIBLE_FAUCET">>,
      <<131116, "ERR_VAULT_HAS_NON_FUNGIBLE_ASSET_PROC_CAN_BE_CALLED_ONLY_WITH_NON_FUNGIBLE_ASSET">>,
      <<131119, "ERR_VAULT_NON_FUNGIBLE_ASSET_ALREADY_EXISTS">>,
      <<131121, "ERR_VAULT_REMOVE_FUNGIBLE_ASSET_TO_ACCOUNT_FAILED_INITIAL_VALUE_INVALID">>,
      <<131120, "ERR_VAULT_REMOVING_FUNGIBLE_ASSET_RESULTS_IN_UNDERFLOW">>,
      <<131122, "ERR_VAULT_REMOVING_INEXISTENT_NON_FUNGIBLE_ASSET">>,
      <<131110, "ERR_FAUCET_BURN_CALLED_ON_NONEXISTENT_TOKEN">>,
      <<131107, "ERR_FAUCET_BURN_CANNOT_EXCEED_EXISTING_SUPPLY">>,
      <<131106, "ERR_FAUCET_MINT_WOULD_CAUSE_ISSUANCE_OVERFLOW">>,
      <<131109, "ERR_FAUCET_NON_FUNGIBLE_BURN_CALLED_ON_WRONG_FAUCET_TYPE">>,
      <<131108, "ERR_FAUCET_NON_FUNGIBLE_TOKEN_ALREADY_EXISTS">>,
      <<131072, "ERR_FAUCET_STORAGE_DATA_SLOT_254_IS_RESERVED">>,
      <<131138, "ERR_ASSET_EXCEED_MAX_AMOUNT_OF_9223372036854775807">>,
      <<131105, "ERR_FUNGIBLE_ASSET_DISTRIBUTE_WOULD_CAUSE_MAX_SUPPLY_TO_BE_EXCEEDED">>,
      <<131123, "ERR_FUNGIBLE_ASSET_FORMAT_POSITION_ONE_MUST_BE_ZERO">>,
      <<131125, "ERR_FUNGIBLE_ASSET_FORMAT_POSITION_THREE_MUST_BE_FUNGIBLE_FAUCET_ID">>,
      <<131124, "ERR_FUNGIBLE_ASSET_FORMAT_POSITION_TWO_MUST_BE_ZERO">>,
      <<131126, "ERR_FUNGIBLE_ASSET_FORMAT_POSITION_ZERO_EXCEEDS_MAXIMUM_ALLOWED_AMOUNT">>,
      <<131129, "ERR_FUNGIBLE_ASSET_ORIGIN_VALIDATION_FAILED">>,
      <<131137, "ERR_FUNGIBLE_ASSET_PROVIDED_ID_IS_INVALID">>,
      <<131128, "ERR_NON_FUNGIBLE_ASSET_FORMAT_HIGH_BIT_MUST_BE_ZERO">>,
      <<131127, "ERR_NON_FUNGIBLE_ASSET_FORMAT_POSITION_ONE_MUST_BE_NON_FUNGIBLE_FAUCET_ID">>,
      <<131130, "ERR_NON_FUNGIBLE_ASSET_ORIGIN_VALIDATION_FAILED">>,
      <<131139, "ERR_NON_FUNGIBLE_ASSET_PROVIDED_ID_IS_INVALID">>,
      <<131114, "ERR_NOTE_ASSETS_EXCEED_LIMIT_OF_255">>,
      <<131112, "ERR_NOTE_ATTEMPT_TO_ACCESS_NOTE_ASSETS_FROM_INCORRECT_CONTEXT">>,
      <<131113, "ERR_NOTE_ATTEMPT_TO_ACCESS_NOTE_INPUTS_FROM_INCORRECT_CONTEXT">>,
      <<131111, "ERR_NOTE_ATTEMPT_TO_ACCESS_NOTE_SENDER_FROM_INCORRECT_CONTEXT">>,
      <<131136, "ERR_NOTE_DATA_DOES_NOT_MATCH_COMMITMENT">>,
      <<131140, "ERR_NOTE_INVALID_TYPE">>,
      <<131142, "ERR_NOTE_TAG_HIGH_BITS_MUST_BE_ZERO">>,
      <<131141, "ERR_NOTE_TYPE_TAG_PREFIX_IS_INVALID">>,
      <<131074, "ERR_P2ID_EXPECTS_EXACTLY_1_NOTE_INPUT">>,
      <<131075, "ERR_P2ID_MISMATCH_OF_TARGET_ACCOUNT_ADDR_AND_TRANSACTION_ADDR">>,
      <<131077, "ERR_P2IDR_CAN_BE_RECLAIMED_ONLY_BY_SENDER">>,
      <<131076, "ERR_P2IDR_EXPECTS_EXACTLY_2_NOTE_INPUTS">>,
      <<131078, "ERR_P2IDR_RECLAIM_BLOCK_HEIGHT_NOT_REACHED">>,
      <<131079, "ERR_SWAP_EXPECTS_EXACTLY_9_NOTE_INPUTS">>,
      <<131080, "ERR_SWAP_REQUIRES_EXACTLY_1_NOTE_ASSET">>,
      <<131085, "ERR_PROLOGUE_ACCOUNT_DATA_STORAGE_EXCEEDS_256_ELEMENTS">>,
      <<131086, "ERR_PROLOGUE_ACCOUNT_DATA_STORAGE_INVALID_TYPE_DISCRIMINANT">>,
      <<131084, "ERR_PROLOGUE_ACCOUNT_STORAGE_DATA_DONT_MATCH_ITS_COMMITMENT">>,
      <<131103, "ERR_PROLOGUE_MISMATCH_OF_INPUT_NOTES_COMMITMENT_FROM_ADVICE_DATA_AND_KERNEL_INPUTS">>,
      <<131096, "ERR_PROLOGUE_EXISTING_ACCOUNT_MUST_HAVE_NON_ZERO_NONCE">>,
      <<131083, "ERR_PROLOGUE_GLOBAL_INPUTS_PROVIDED_DONT_MATCH_BLOCK_HASH_COMMITMENT">>,
      <<131097, "ERR_PROLOGUE_MISMATCH_OF_ACCOUNT_IDS_FROM_GLOBAL_INPUTS_AND_ADVICE_PROVIDER">>,
      <<131098, "ERR_PROLOGUE_MISMATCH_OF_REFERENCE_BLOCK_MMR_AND_NOTE_AUTHENTICATION_MMR">>,
      <<131088, "ERR_PROLOGUE_NEW_ACCOUNT_SLOT_TYPES_MUST_BE_VALID">>,
      <<131087, "ERR_PROLOGUE_NEW_ACCOUNT_VAULT_MUST_BE_EMPTY">>,
      <<131091, "ERR_PROLOGUE_NEW_FUNGIBLE_FAUCET_RESERVED_SLOT_INVALID_TYPE">>,
      <<131089, "ERR_PROLOGUE_NEW_FUNGIBLE_FAUCET_RESERVED_SLOT_MUST_BE_EMPTY">>,
      <<131090, "ERR_PROLOGUE_NEW_FUNGIBLE_FAUCET_RESERVED_SLOT_MUST_HAVE_ZERO_ARITY">>,
      <<131094, "ERR_PROLOGUE_NEW_NON_FUNGIBLE_FAUCET_RESERVED_SLOT_INVALID_TYPE">>,
      <<131092, "ERR_PROLOGUE_NEW_NON_FUNGIBLE_FAUCET_RESERVED_SLOT_MUST_BE_VALID_EMPY_SMT">>,
      <<131093, "ERR_PROLOGUE_NEW_NON_FUNGIBLE_FAUCET_RESERVED_SLOT_MUST_HAVE_ZERO_ARITY">>,
      <<131102, "ERR_PROLOGUE_NUMBER_OF_INPUT_NOTES_EXCEEDED_KERNEL_LIMIT_OF_1023">>,
      <<131100, "ERR_PROLOGUE_NUMBER_OF_NOTE_ASSETS_EXCEEDED_LIMIT_OF_256">>,
      <<131099, "ERR_PROLOGUE_NUMBER_OF_NOTE_INPUTS_EXCEEDED_LIMIT_OF_128">>,
      <<131095, "ERR_PROLOGUE_PROVIDED_ACCOUNT_DATA_DONT_MATCH_ON_CHAIN_COMMITMENT">>,
      <<131101, "ERR_PROLOGUE_PROVIDED_INPUT_ASSETS_INFO_DONT_MATCH_ITS_COMMITMENT">>,
      <<131082, "ERR_EPILOGUE_TOTAL_NUMBER_OF_ASSETS_MUST_STAY_THE_SAME">>,
      <<131104, "ERR_TX_NUMBER_OF_OUTPUT_NOTES_EXCEEDED_LIMIT_OF_4096">>
    >>

\* BTreeMap::from(array): a later pair replaces an earlier one with its key.
BTreeMapFrom(pairs) ==
    [k \in {pairs[i][1] : i \in DOMAIN pairs} |->
        LET last == CHOOSE i \in DOMAIN pairs :
                        /\ pairs[i][1] = k
                        /\ \A j \in DOMAIN pairs : pairs[j][1] = k => j <= i
        IN  pairs[last][2]]

\* The host's error_messages field, set by new and never written again.
error_messages == BTreeMapFrom(ERROR_MESSAGES)

\* As on_assert_failed below, without the lookup.
on_assert_failed_untranslated(clk, err_code) ==
    [Fail(Err("FailedAssertion", "Unknown error", "-"), Host) EXCEPT
        !.assertion = [clk |-> clk, err_code |-> err_code,
                       err_msg |-> "Unknown error"]]

\* Host::on_assert_failed: the ExecutionError::FailedAssertion it returns.
on_assert_failed(clk, err_code) ==
    LET err_msg == IF err_code \in DOMAIN error_messages
                   THEN error_messages[err_code]
                   ELSE "Unknown error"
    IN  [Fail(Err("FailedAssertion", err_msg, "-"), Host) EXCEPT
            !.assertion = [clk |-> clk, err_code |-> err_code,
                           err_msg |-> err_msg]]

\* ------------------------------------------------------------ event dispatch

AccountEvents ==
    {"AccountVaultBeforeAddAsset", "AccountVaultAfterAddAsset",
     "AccountVaultBeforeRemoveAsset", "AccountVaultAfterRemoveAsset",
     "AccountStorageBeforeSetItem", "AccountStorageAfterSetItem",
     "AccountStorageBeforeSetMapItem", "AccountStorageAfterSetMapItem",
     "AccountBeforeIncrementNonce", "AccountAfterIncrementNonce"}
NoteEvents ==
    {"NoteBeforeCreated", "NoteAfterCreated",
     "NoteBeforeAddAsset", "NoteAfterAddAsset"}
TransactionEvents ==
    AccountEvents \cup NoteEvents \cup {"AccountPushProcedureIndex"}
\* An event id TransactionEvent::try_from rejects.
UnknownEventId == "unknown"
EventIds == TransactionEvents \cup {UnknownEventId}

\* The handler's error as on_event reports it: EventError(err.to_string()).
AsEventError(r) ==
    IF r.status = "err"
    THEN [r EXCEPT !.err = Err("EventError", r.err.kind, "-")]
    ELSE r

\* As dispatch below, with the nonce handler on the after event too.
dispatch_nonce_after(event, stack) ==
    CASE event = "AccountVaultAfterAddAsset" ->
            on_account_vault_after_add_asset(stack)
      [] event = "AccountVaultAfterRemoveAsset" ->
            on_account_vault_after_remove_asset(stack)
      [] event = "AccountStorageAfterSetItem" ->
            on_account_storage_after_set_item(stack)
      [] event = "AccountStorageAfterSetMapItem" ->
            on_account_storage_after_set_map_item(stack)
      [] event \in {"AccountBeforeIncrementNonce", "AccountAfterIncrementNonce"} ->
            on_account_before_increment_nonce(stack)
      [] event = "AccountPushProcedureIndex" ->
            on_account_push_procedure_index(stack)
      [] event = "NoteAfterCreated" -> on_note_after_created(stack)
      [] event = "NoteBeforeAddAsset" -> on_note_before_add_asset(stack)
      [] OTHER -> Ok(Host)

dispatch(event, stack) ==
    CASE event = "AccountVaultAfterAddAsset" ->
            on_account_vault_after_add_asset(stack)
      [] event = "AccountVaultAfterRemoveAsset" ->
            on_account_vault_after_remove_asset(stack)
      [] event = "AccountStorageAfterSetItem" ->
            on_account_storage_after_set_item(stack)
      [] event = "AccountStorageAfterSetMapItem" ->
            on_account_storage_after_set_map_item(stack)
      [] event = "AccountBeforeIncrementNonce" ->
            on_account_before_increment_nonce(stack)
      [] event = "AccountPushProcedureIndex" ->
            on_account_push_procedure_index(stack)
      [] event = "NoteAfterCreated" -> on_note_after_created(stack)
      [] event = "NoteBeforeAddAsset" -> on_note_before_add_asset(stack)
      [] OTHER -> Ok(Host)

\* As on_event below, without the check of the execution context.
on_event_any_context(event_id, ctx, stack) ==
    IF event_id \notin TransactionEvents
    THEN Fail(Err("EventError", "unknown event id", "-"), Host)
    ELSE AsEventError(dispatch(event_id, stack))

\* As on_event below, with an unknown event id left to the dispatch.
on_event_default_branch(event_id, ctx, stack) ==
    IF ctx # ROOT
    THEN Fail(Err("EventError", "can only be emitted from the root context",
                  event_id),
              Host)
    ELSE AsEventError(dispatch(event_id, stack))

\* Host::on_event
on_event(event_id, ctx, stack) ==
    IF event_id \notin TransactionEvents
    THEN Fail(Err("EventError", "unknown event id", "-"), Host)
    ELSE IF ctx # ROOT
    THEN Fail(Err("EventError", "can only be emitted from the root context",
                  event_id),
              Host)
    ELSE AsEventError(dispatch(event_id, stack))

\* TransactionHost::into_parts: BTreeMap::into_values yields in key order.
RECURSIVE IntoValues(_)
IntoValues(m) ==
    IF DOMAIN m = {} THEN <<>>
    ELSE LET k == CHOOSE x \in DOMAIN m : \A y \in DOMAIN m : x <= y
         IN  <<m[k]>> \o IntoValues(Del(m, k))

into_parts ==
    [account_delta |-> into_delta(account_delta),
     output_notes |-> [i \in 1..Cardinality(DOMAIN output_notes) |->
                          build(IntoValues(output_notes)[i])],
     generated_signatures |-> generated_signatures]


\* ------------------------------------------------------------- 64-bit words

\* A u64 is four 16-bit limbs, most significant first; a Felt is the u64
\* that as_int() returns for it.
ZERO == <<0, 0, 0, 0>>

\* `n as u64` for a small n.
FromInt(n) == <<0, 0, n \div 65536, n % 65536>>

\* Bit i of x, bit 0 the least significant.
BitAt(x, i) == (x[4 - (i \div 16)] \div (2 ^ (i % 16))) % 2

Bits(x) == [i \in 0..63 |-> BitAt(x, i)]

\* The number whose n bits, least significant first, are b[lo], b[lo + 1], ...
RECURSIVE Weigh(_, _, _)
Weigh(b, lo, n) == IF n = 0 THEN 0 ELSE b[lo] + 2 * Weigh(b, lo + 1, n - 1)

FromBits(b) == <<Weigh(b, 48, 16), Weigh(b, 32, 16), Weigh(b, 16, 16), Weigh(b, 0, 16)>>

\* x & y, x ^ y, x << k and x >> k on u64.
BitAnd(x, y) == FromBits([i \in 0..63 |-> BitAt(x, i) * BitAt(y, i)])
BitXor(x, y) == FromBits([i \in 0..63 |-> (BitAt(x, i) + BitAt(y, i)) % 2])
Shl(x, k) == FromBits([i \in 0..63 |-> IF i >= k THEN BitAt(x, i - k) ELSE 0])
Shr(x, k) == FromBits([i \in 0..63 |-> IF i + k <= 63 THEN BitAt(x, i + k) ELSE 0])

\* x < y on u64.
Less(x, y) ==
    \E j \in 1..4 : x[j] < y[j] /\ \A k \in 1..(j - 1) : x[k] = y[k]

RECURSIVE OnesFrom(_, _)
OnesFrom(x, i) == IF i > 63 THEN 0 ELSE BitAt(x, i) + OnesFrom(x, i + 1)

\* u64::count_ones
count_ones(x) == OnesFrom(x, 0)

RECURSIVE ZerosFrom(_, _)
ZerosFrom(x, i) ==
    IF i > 63 \/ BitAt(x, i) = 1 THEN 0 ELSE 1 + ZerosFrom(x, i + 1)

\* u64::trailing_zeros: 64 for zero.
trailing_zeros(x) == ZerosFrom(x, 0)

\* u64::to_le_bytes and u64::from_le_bytes.
to_le_bytes(x) ==
    LET b == Bits(x)
    IN  <<Weigh(b, 0, 8), Weigh(b, 8, 8), Weigh(b, 16, 8), Weigh(b, 24, 8),
          Weigh(b, 32, 8), Weigh(b, 40, 8), Weigh(b, 48, 8), Weigh(b, 56, 8)>>
from_le_bytes(b) ==
    FromBits([i \in 0..63 |-> (b[(i \div 8) + 1] \div (2 ^ (i % 8))) % 2])

\* The field modulus 2^64 - 2^32 + 1.
M == <<65535, 65535, 0, 1>>

\* Felt::try_from(&[u8])
Felt_try_from(bytes) ==
    IF Len(bytes) # 8 THEN [ok |-> FALSE, felt |-> ZERO]
    ELSE LET value == from_le_bytes(bytes)
         IN  IF ~Less(value, M) THEN [ok |-> FALSE, felt |-> ZERO]
             ELSE [ok |-> TRUE, felt |-> value]

\* ----------------------------------------------------------------- AccountId

ACCOUNT_STORAGE_MASK_SHIFT == 62
ACCOUNT_STORAGE_MASK == Shl(FromInt(3), ACCOUNT_STORAGE_MASK_SHIFT)
ACCOUNT_TYPE_MASK_SHIFT == 60
ACCOUNT_TYPE_MASK == Shl(FromInt(3), ACCOUNT_TYPE_MASK_SHIFT)
ACCOUNT_ISFAUCET_MASK == Shl(FromInt(2), ACCOUNT_TYPE_MASK_SHIFT)

FUNGIBLE_FAUCET == 2
NON_FUNGIBLE_FAUCET == 3
REGULAR_ACCOUNT_IMMUTABLE_CODE == 0
REGULAR_ACCOUNT_UPDATABLE_CODE == 1

AccountTypes ==
    {"FungibleFaucet", "NonFungibleFaucet", "RegularAccountImmutableCode",
     "RegularAccountUpdatableCode"}

\* `account_type as u64`, the enum's discriminant.
AccountType_as_u64(t) ==
    CASE t = "FungibleFaucet" -> FUNGIBLE_FAUCET
      [] t = "NonFungibleFaucet" -> NON_FUNGIBLE_FAUCET
      [] t = "RegularAccountImmutableCode" -> REGULAR_ACCOUNT_IMMUTABLE_CODE
      [] t = "RegularAccountUpdatableCode" -> REGULAR_ACCOUNT_UPDATABLE_CODE

\* As AccountType_from below, reading the two bits above the type's.
AccountType_from_storage_bits(value) ==
    LET bits == Shr(BitAnd(value, ACCOUNT_STORAGE_MASK), ACCOUNT_STORAGE_MASK_SHIFT)
    IN  CASE bits = FromInt(REGULAR_ACCOUNT_UPDATABLE_CODE) ->
                "RegularAccountUpdatableCode"
          [] bits = FromInt(REGULAR_ACCOUNT_IMMUTABLE_CODE) ->
                "RegularAccountImmutableCode"
          [] bits = FromInt(FUNGIBLE_FAUCET) -> "FungibleFaucet"
          [] bits = FromInt(NON_FUNGIBLE_FAUCET) -> "NonFungibleFaucet"
          [] OTHER -> "unreachable"

\* impl From<u64> for AccountType
AccountType_from(value) ==
    LET bits == Shr(BitAnd(value, ACCOUNT_TYPE_MASK), ACCOUNT_TYPE_MASK_SHIFT)
    IN  CASE bits = FromInt(REGULAR_ACCOUNT_UPDATABLE_CODE) ->
                "RegularAccountUpdatableCode"
          [] bits = FromInt(REGULAR_ACCOUNT_IMMUTABLE_CODE) ->
                "RegularAccountImmutableCode"
          [] bits = FromInt(FUNGIBLE_FAUCET) -> "FungibleFaucet"
          [] bits = FromInt(NON_FUNGIBLE_FAUCET) -> "NonFungibleFaucet"
          [] OTHER -> "unreachable"

ON_CHAIN == 0
OFF_CHAIN == 2

AccountStorageTypes == {"OnChain", "OffChain"}

\* `storage as u64`
AccountStorageType_as_u64(s) ==
    CASE s = "OnChain" -> ON_CHAIN
      [] s = "OffChain" -> OFF_CHAIN

\* The release build's and the testing build's proof-of-work requirements.
REGULAR_ACCOUNT_SEED_DIGEST_MIN_TRAILING_ZEROS(testing) ==
    IF testing THEN 5 ELSE 23
FAUCET_SEED_DIGEST_MIN_TRAILING_ZEROS(testing) ==
    IF testing THEN 6 ELSE 31

MIN_ACCOUNT_ONES == 5

\* Result<AccountId, AccountError>
IdOk(value) == [ok |-> TRUE, id |-> value, err |-> "-"]
IdErr(e) == [ok |-> FALSE, id |-> ZERO, err |-> e]
NoResult == IdErr("-")

\* As the conversion below, with the storage bits checked before the ones.
AccountId_try_from_felt_storage_first(value) ==
    LET bits == Shr(BitAnd(value, ACCOUNT_STORAGE_MASK), ACCOUNT_STORAGE_MASK_SHIFT)
    IN  IF bits \notin {FromInt(ON_CHAIN), FromInt(OFF_CHAIN)}
        THEN IdErr("InvalidAccountStorageType")
        ELSE IF count_ones(value) < MIN_ACCOUNT_ONES
        THEN IdErr("AccountIdTooFewOnes")
        ELSE IdOk(value)

\* impl TryFrom<Felt> for AccountId
AccountId_try_from_felt(value) ==
    LET int_value == value
        count == count_ones(int_value)
    IN  IF count < MIN_ACCOUNT_ONES
        THEN IdErr("AccountIdTooFewOnes")
        ELSE LET bits == Shr(BitAnd(int_value, ACCOUNT_STORAGE_MASK),
                             ACCOUNT_STORAGE_MASK_SHIFT)
             IN  IF bits \in {FromInt(ON_CHAIN), FromInt(OFF_CHAIN)}
                 THEN IdOk(value)
                 ELSE IdErr("InvalidAccountStorageType")

parse_felt(bytes) ==
    LET f == Felt_try_from(bytes)
    IN  IF f.ok THEN IdOk(f.felt) ELSE IdErr("AccountIdInvalidFieldElement")

\* impl TryFrom<[u8; 8]> for AccountId
AccountId_try_from_bytes(value) ==
    LET element == parse_felt(value)
    IN  IF ~element.ok THEN element ELSE AccountId_try_from_felt(element.id)

\* impl TryFrom<u64> for AccountId
AccountId_try_from_u64(value) ==
    LET element == parse_felt(to_le_bytes(value))
    IN  IF ~element.ok THEN element ELSE AccountId_try_from_felt(element.id)

\* AccountId::new_unchecked
new_unchecked(value) == IdOk(value)

\* AccountId::account_type
account_type(id) == AccountType_from(id)

\* AccountId::storage_type
storage_type(id) ==
    LET bits == Shr(BitAnd(id, ACCOUNT_STORAGE_MASK), ACCOUNT_STORAGE_MASK_SHIFT)
    IN  CASE bits = FromInt(ON_CHAIN) -> "OnChain"
          [] bits = FromInt(OFF_CHAIN) -> "OffChain"
          [] OTHER -> "panic"

is_regular_account(account_id) ==
    AccountType_from(account_id)
        \in {"RegularAccountUpdatableCode", "RegularAccountImmutableCode"}

\* AccountId::is_regular_account
AccountId_is_regular_account(id) == is_regular_account(id)

\* As is_faucet below, matching the fungible faucet alone.
is_faucet_fungible_only(id) == account_type(id) \in {"FungibleFaucet"}

\* AccountId::is_faucet
is_faucet(id) == account_type(id) \in {"FungibleFaucet", "NonFungibleFaucet"}

\* testing::account_id
account_id(type, storage, rest) ==
    LET id0 == ZERO
        id1 == BitXor(id0, Shl(FromInt(AccountStorageType_as_u64(storage)),
                               ACCOUNT_STORAGE_MASK_SHIFT))
        id2 == BitXor(id1, Shl(FromInt(AccountType_as_u64(type)),
                               ACCOUNT_TYPE_MASK_SHIFT))
    IN  BitXor(id2, rest)

\* ----------------------------------------------------------------------- hex

\* A string is the sequence of its characters.
HexDigits ==
    <<"0", "1", "2", "3", "4", "5", "6", "7", "8", "9",
      "a", "b", "c", "d", "e", "f">>
UpperHexDigits == <<"A", "B", "C", "D", "E", "F">>

\* format!("0x{:016x}", id.as_int())
to_hex(id) ==
    <<"0", "x">> \o [k \in 1..16 |-> HexDigits[Weigh(Bits(id), 4 * (16 - k), 4) + 1]]

\* The value hex_to_bytes gives a character, -1 for one it rejects.
HexValue(c) ==
    IF \E i \in 1..16 : HexDigits[i] = c
    THEN (CHOOSE i \in 1..16 : HexDigits[i] = c) - 1
    ELSE IF \E i \in 1..6 : UpperHexDigits[i] = c
    THEN (CHOOSE i \in 1..6 : UpperHexDigits[i] = c) + 9
    ELSE -1

\* utils::hex_to_bytes::<8>
hex_to_bytes(value) ==
    IF Len(value) # 18 THEN [ok |-> FALSE, bytes |-> <<>>]
    ELSE IF SubSeq(value, 1, 2) # <<"0", "x">> THEN [ok |-> FALSE, bytes |-> <<>>]
    ELSE IF \E k \in 3..18 : HexValue(value[k]) < 0
    THEN [ok |-> FALSE, bytes |-> <<>>]
    ELSE [ok |-> TRUE,
          bytes |-> [pos \in 1..8 |->
                        HexValue(value[2 * pos + 1]) * 16
                            + HexValue(value[2 * pos + 2])]]

\* As from_hex below, without bytes.reverse().
from_hex_unreversed(hex_value) ==
    LET r == hex_to_bytes(hex_value)
    IN  IF ~r.ok THEN IdErr("HexParseError")
        ELSE AccountId_try_from_bytes(r.bytes)

\* AccountId::from_hex
from_hex(hex_value) ==
    LET r == hex_to_bytes(hex_value)
    IN  IF ~r.ok THEN IdErr("HexParseError")
        ELSE AccountId_try_from_bytes(Reverse(r.bytes))

\* ------------------------------------------------------------- seed digests

\* Element 0 of the digests the model's seeds hash to: each account type and
\* storage mode, too few ones, and the two invalid storage modes.
DigestIds ==
    <<<<\h0000, 0, 0, \h001F>>, <<\h9000, 0, 0, \h002F>>,
      <<\h2000, 0, 0, \h001F>>, <<\hB000, 0, 0, \h001F>>,
      <<\hB000, 0, 0, 0>>, <<\h4000, 0, 0, \h001F>>,
      <<\hF000, 0, 0, \h00FF>>, <<\h3720, \h91A5, \h9C4D, \hF13D>>>>

\* Element 3 of the digests: 0, 4, 5, 6, 22, 23, 30, 31, 32 and 64 trailing
\* zeros.
DigestPows ==
    <<<<\h1234, 0, 0, 1>>, <<0, 0, 0, \h0010>>, <<0, 0, 0, \h0020>>,
      <<0, 0, 0, \h0040>>, <<0, 0, \h0040, 0>>, <<0, 0, \h0080, 0>>,
      <<0, 0, \h4000, 0>>, <<0, 0, \h8000, 0>>, <<0, 1, 0, 0>>, ZERO>>

Seeds == 0..(Len(DigestIds) * Len(DigestPows) - 1)

\* Hasher::hash_elements over the model's seeds: a fixed table.
compute_digest(seed, code_root, storage_root) ==
    <<DigestIds[(seed % Len(DigestIds)) + 1], FromInt(code_root),
      FromInt(storage_root), DigestPows[(seed \div Len(DigestIds)) + 1]>>

digest_pow(digest) == trailing_zeros(digest[4])

\* AccountId::validate_seed_digest
validate_seed_digest(digest, testing) ==
    LET required_zeros ==
            IF is_regular_account(digest[1])
            THEN REGULAR_ACCOUNT_SEED_DIGEST_MIN_TRAILING_ZEROS(testing)
            ELSE FAUCET_SEED_DIGEST_MIN_TRAILING_ZEROS(testing)
        zeros == digest_pow(digest)
    IN  IF required_zeros > zeros
        THEN IdErr("SeedDigestTooFewTrailingZeros")
        ELSE IdOk(ZERO)

\* As AccountId_new below, with the regular requirement for every account.
AccountId_new_regular_pow(seed, code_root, storage_root, testing) ==
    LET seed_digest == compute_digest(seed, code_root, storage_root)
    IN  IF REGULAR_ACCOUNT_SEED_DIGEST_MIN_TRAILING_ZEROS(testing)
              > digest_pow(seed_digest)
        THEN IdErr("SeedDigestTooFewTrailingZeros")
        ELSE AccountId_try_from_felt(seed_digest[1])

\* AccountId::new
AccountId_new(seed, code_root, storage_root, testing) ==
    LET seed_digest == compute_digest(seed, code_root, storage_root)
        v == validate_seed_digest(seed_digest, testing)
    IN  IF ~v.ok THEN v ELSE AccountId_try_from_felt(seed_digest[1])

\* A caller of the constructors: what it offered, what it got back, the hex
\* text it made of the identifier and what parsing that text gave.
NoAccountId ==
    [stage |-> "start", via |-> "-", arg |-> ZERO,
     digest |-> <<ZERO, ZERO, ZERO, ZERO>>, testing |-> FALSE,
     type |-> "-", storage |-> "-", res |-> NoResult, text |-> <<>>,
     back |-> NoResult]

\* ------------------------------------------------------ transaction progress
\* (tx_progress.rs is not among the sources: modelled from the
\* specification's sections 3 and 4.5)

\* An interval of VM cycles: optional start, optional end.
NoInterval == [start |-> None, end |-> None]

TransactionProgress_default ==
    [prologue |-> NoInterval,
     notes_processing |-> NoInterval,
     note_execution |-> <<>>,
     tx_script_processing |-> NoInterval,
     epilogue |-> NoInterval]

\* start_prologue, start_notes_processing, start_tx_script_processing,
\* start_epilogue and their end_ counterparts: "purely additive recording".
start_phase(p, phase, cycle) == [p EXCEPT ![phase].start = Some(cycle)]
end_phase(p, phase, cycle) == [p EXCEPT ![phase].end = Some(cycle)]

\* "per-note variant additionally takes a note identifier at start"
start_note_execution(p, cycle, note_id) ==
    [p EXCEPT !.note_execution =
        Append(@, [note_id |-> note_id, start |-> Some(cycle), end |-> None])]

\* The end of the interval started last, if there is one.
end_note_execution(p, cycle) ==
    IF p.note_execution = <<>> THEN p
    ELSE [p EXCEPT !.note_execution[Len(p.note_execution)].end = Some(cycle)]

\* ------------------------------------------------------------ trace dispatch

TransactionTraces ==
    {"PrologueStart", "PrologueEnd", "NotesProcessingStart", "NotesProcessingEnd",
     "NoteExecutionStart", "NoteExecutionEnd", "TxScriptProcessingStart",
     "TxScriptProcessingEnd", "EpilogueStart", "EpilogueEnd"}
\* A trace id TransactionTrace::try_from rejects.
UnknownTraceId == "unknown"
TraceIds == TransactionTraces \cup {UnknownTraceId}

PhaseOf(trace) ==
    CASE trace \in {"PrologueStart", "PrologueEnd"} -> "prologue"
      [] trace \in {"NotesProcessingStart", "NotesProcessingEnd"} ->
            "notes_processing"
      [] trace \in {"TxScriptProcessingStart", "TxScriptProcessingEnd"} ->
            "tx_script_processing"
      [] trace \in {"EpilogueStart", "EpilogueEnd"} -> "epilogue"
      [] OTHER -> "note_execution"

\* What process.get_mem_value returns in the current context: the first
\* element of the word at CURRENT_CONSUMED_NOTE_PTR (ptr), and the word at
\* the address it holds (at).
NoAddr == [some |-> FALSE, val |-> ZERO]
SomeAddr(a) == [some |-> TRUE, val |-> a]
NoNote == [some |-> FALSE, val |-> "-"]
SomeNote(n) == [some |-> TRUE, val |-> n]

\* u32::try_from(felt)
FitsU32(x) == x[1] = 0 /\ x[2] = 0

\* As get_current_note_id below, with address zero read as any other.
get_current_note_id_zero_is_address(mem) ==
    IF ~mem.ptr.some
    THEN [ok |-> TRUE, id |-> NoNote, err |-> NoError]
    ELSE IF ~FitsU32(mem.ptr.val)
    THEN [ok |-> FALSE, id |-> NoNote,
          err |-> Err("MemoryAddressOutOfBounds", ToString(mem.ptr.val), "-")]
    ELSE [ok |-> TRUE, id |-> mem.at, err |-> NoError]

\* As get_current_note_id below, with the address cut to its low 32 bits
\* (`as u32`) where the code converts with try_into.
get_current_note_id_truncating(mem) ==
    IF ~mem.ptr.some
    THEN [ok |-> TRUE, id |-> NoNote, err |-> NoError]
    ELSE IF mem.ptr.val[3] = 0 /\ mem.ptr.val[4] = 0
    THEN [ok |-> TRUE, id |-> NoNote, err |-> NoError]
    ELSE [ok |-> TRUE, id |-> mem.at, err |-> NoError]

\* TransactionHost::get_current_note_id
get_current_note_id(mem) ==
    IF ~mem.ptr.some
    THEN [ok |-> TRUE, id |-> NoNote, err |-> NoError]
    ELSE IF ~FitsU32(mem.ptr.val)
    THEN [ok |-> FALSE, id |-> NoNote,
          err |-> Err("MemoryAddressOutOfBounds", ToString(mem.ptr.val), "-")]
    ELSE IF mem.ptr.val = ZERO
    THEN [ok |-> TRUE, id |-> NoNote, err |-> NoError]
    ELSE [ok |-> TRUE, id |-> mem.at, err |-> NoError]

\* Host::on_trace
on_trace(trace_id, ctx, clk, mem) ==
    IF trace_id \notin TransactionTraces
    THEN Fail(Err("EventError", "unknown trace id", "-"), Host)
    ELSE CASE trace_id = "NoteExecutionStart" ->
                LET g == get_current_note_id(mem)
                IN  IF ~g.ok THEN Fail(g.err, Host)
                    ELSE IF ~g.id.some
                    THEN Panic("Note execution interval measurement is incorrect",
                               Host)
                    ELSE Ok([Host EXCEPT !.tx_progress =
                                start_note_execution(@, clk, g.id.val)])
           [] trace_id = "NoteExecutionEnd" ->
                Ok([Host EXCEPT !.tx_progress = end_note_execution(@, clk)])
           [] trace_id \in {"PrologueStart", "NotesProcessingStart",
                            "TxScriptProcessingStart", "EpilogueStart"} ->
                Ok([Host EXCEPT !.tx_progress =
                       start_phase(@, PhaseOf(trace_id), clk)])
           [] OTHER ->
                Ok([Host EXCEPT !.tx_progress =
                       end_phase(@, PhaseOf(trace_id), clk)])

\* --------------------------------------------------------- the kernel side

\* Largest note index the kernel puts on the stack.
MaxNoteIdx == 2

\* Largest clock cycle at which an assertion fails.
MaxClk == 1

\* process.clk()
Clocks == 0..MaxClk

\* Assertion codes the VM can raise: every listed one, and codes below,
\* above and far from the listed range.
AssertCodes ==
    {ERROR_MESSAGES[i][1] : i \in DOMAIN ERROR_MESSAGES}
        \cup {0, 131071, 131143}

DefaultStack ==
    [asset |-> MalformedWord, slot |-> 0, new |-> W0001, cur |-> W0001,
     key |-> W0001, value |-> 0, note_idx |-> 0, meta |-> "m1",
     proc_root |-> "p0", pk |-> "K1", msg |-> "M1"]

\* The operand stacks the kernel can present with an event: the current
\* slot value is the VM's, the nonce only increases.
KernelStacks(event) ==
    CASE event \in {"AccountVaultAfterAddAsset", "AccountVaultAfterRemoveAsset"} ->
            {[DefaultStack EXCEPT !.asset = a] : a \in AssetWords}
      [] event = "AccountStorageAfterSetItem" ->
            {[DefaultStack EXCEPT
                 !.slot = sl, !.new = w,
                 !.cur = IF sl \in ValidSlots THEN vm.storage[sl] ELSE W0001] :
             sl \in SlotInputs, w \in Words}
      [] event = "AccountStorageAfterSetMapItem" ->
            {[DefaultStack EXCEPT !.slot = sl, !.new = w] :
             sl \in SlotInputs, w \in Words}
      [] event = "AccountBeforeIncrementNonce" ->
            {[DefaultStack EXCEPT !.value = v] : v \in (vm.nonce + 1)..MaxNonce}
      [] event = "AccountPushProcedureIndex" ->
            {[DefaultStack EXCEPT !.proc_root = p] : p \in ProcRoots}
      [] event = "NoteAfterCreated" ->
            {[DefaultStack EXCEPT !.note_idx = i, !.meta = m] :
             i \in 0..MaxNoteIdx, m \in NoteMetas \cup {MalformedMeta}}
      [] event = "NoteBeforeAddAsset" ->
            {[DefaultStack EXCEPT !.note_idx = i, !.asset = a] :
             i \in 0..MaxNoteIdx, a \in AssetWords}
      [] OTHER -> {DefaultStack}

\* Stacks of the set-map-item event, over more than one key.
MapItemStacks ==
    {[DefaultStack EXCEPT !.slot = sl, !.key = k, !.new = w] :
     sl \in SlotInputs, k \in Words, w \in Words}

\* Stacks of the two storage events with a slot index out of range.
BadSlotStacks ==
    {[DefaultStack EXCEPT !.slot = sl, !.new = w] :
     sl \in InvalidSlots, w \in Words}

\* The memory the process shows at a trace: the pointer unset, zero, an
\* address with a note or with nothing, and 2^32, which fits no u32.
Memories ==
    {[ptr |-> NoAddr, at |-> NoNote],
     [ptr |-> SomeAddr(ZERO), at |-> SomeNote("n1")],
     [ptr |-> SomeAddr(FromInt(8)), at |-> SomeNote("n1")],
     [ptr |-> SomeAddr(FromInt(8)), at |-> NoNote],
     [ptr |-> SomeAddr(<<0, 1, 0, 0>>), at |-> SomeNote("n1")]}

SignatureStacks ==
    {[DefaultStack EXCEPT !.pk = k, !.msg = m] : k \in PubKeys, m \in Msgs}

\* What the kernel did to the account when it emitted the event.
KernelEffect(event, stack) ==
    CASE event = "AccountStorageAfterSetItem" /\ stack.slot \in ValidSlots ->
            [vm EXCEPT !.storage[stack.slot] = stack.new]
      [] event = "AccountBeforeIncrementNonce" ->
            [vm EXCEPT !.nonce = stack.value]
      [] OTHER -> vm

\* The scenario of the specification's section 8, as the events it consists of.
ScenarioEvent(n) ==
    CASE n = 1 -> <<"AccountStorageAfterSetItem",
                    [DefaultStack EXCEPT !.slot = 0, !.new = W0001, !.cur = W0001]>>
      [] n = 2 -> <<"AccountStorageAfterSetItem",
                    [DefaultStack EXCEPT !.slot = 0, !.new = W1000, !.cur = W0001]>>
      [] n = 3 -> <<"AccountBeforeIncrementNonce",
                    [DefaultStack EXCEPT !.value = vm.init_nonce + 1]>>
      [] n = 4 -> <<"AccountVaultAfterAddAsset",
                    [DefaultStack EXCEPT !.asset = FungibleAsset(FaucetF, 100)]>>
      [] OTHER -> <<"-", DefaultStack>>

\* History of the events the host accepted.
Observe(event, stack) ==
    LET a == stack.asset
        sums(m) == [m EXCEPT ![a.id] = @ + a.amount]
    IN  [added |->
            IF event = "AccountVaultAfterAddAsset" /\ a.kind # "malformed"
            THEN sums(hist.added) ELSE hist.added,
         removed |->
            IF event = "AccountVaultAfterRemoveAsset" /\ a.kind # "malformed"
            THEN sums(hist.removed) ELSE hist.removed,
         creation |->
            IF event = "NoteAfterCreated"
            THEN Append(hist.creation, stack.meta) ELSE hist.creation,
         last_nonce |->
            IF event = "AccountBeforeIncrementNonce"
            THEN Some(stack.value) ELSE hist.last_nonce,
         nonce_sum |->
            IF event = "AccountBeforeIncrementNonce"
            THEN hist.nonce_sum + stack.value ELSE hist.nonce_sum,
         nonce_events |->
            IF event = "AccountBeforeIncrementNonce"
            THEN hist.nonce_events + 1 ELSE hist.nonce_events,
         map_writes |->
            IF event = "AccountStorageAfterSetMapItem"
            THEN Put(hist.map_writes, <<stack.slot, stack.key>>, stack.new)
            ELSE hist.map_writes,
         emitted |->
            CASE event = "NoteAfterCreated" ->
                    Put(hist.emitted, stack.note_idx, <<>>)
              [] event = "NoteBeforeAddAsset" ->
                    [hist.emitted EXCEPT ![stack.note_idx] = Append(@, stack.asset)]
              [] OTHER -> hist.emitted,
         scenario |->
            IF hist.scenario >= 0 /\ <<event, stack>> = ScenarioEvent(hist.scenario + 1)
            THEN hist.scenario + 1 ELSE -1]

\* ------------------------------------------------------------------ actions

Commit(r) ==
    /\ pc' = CASE r.status = "ok" -> "running"
               [] r.status = "err" -> "aborted"
               [] OTHER -> "panicked"
    /\ error' = r.err
    /\ account_delta' = r.host.account_delta
    /\ output_notes' = r.host.output_notes
    /\ adv_stack' = r.host.adv_stack
    /\ generated_signatures' = r.host.generated_signatures
    /\ acct_procedure_index_map' = r.host.acct_procedure_index_map
    /\ tx_progress' = r.host.tx_progress
    /\ rng' = r.host.rng
    /\ auth_calls' = r.host.auth_calls
    /\ auth_ret' = r.host.auth_ret
    /\ adv_ret' = r.host.adv_ret
    /\ assertion' = r.assertion
    /\ fuel' = fuel - 1
    /\ UNCHANGED <<adv_map, authenticator, parts, acct>>

\* The kernel emits an event and the host handles it.
Event(event_id, ctx, stack) ==
    /\ pc = "running"
    /\ fuel > 0
    /\ LET r == on_event(event_id, ctx, stack)
       IN  /\ Commit(r)
           /\ vm' = KernelEffect(event_id, stack)
           /\ hist' = IF r.status = "ok" THEN Observe(event_id, stack)
                      ELSE hist

\* The VM asks for advice to be injected.
SetAdvice(injector, stack) ==
    /\ pc = "running"
    /\ fuel > 0
    /\ Commit(set_advice(injector, stack))
    /\ hist' = [hist EXCEPT !.scenario = -1]
    /\ UNCHANGED vm

\* The VM asks for advice to be extracted.
GetAdvice(extractor) ==
    /\ pc = "running"
    /\ fuel > 0
    /\ Commit(get_advice(extractor))
    /\ UNCHANGED <<vm, hist>>

\* The kernel emits a trace marker at clock cycle clk.
Trace(trace_id, ctx, clk, mem) ==
    /\ pc = "running"
    /\ fuel > 0
    /\ Commit(on_trace(trace_id, ctx, clk, mem))
    /\ UNCHANGED <<vm, hist>>

\* A kernel assertion fails at clock cycle clk with code err_code.
AssertFailed(clk, err_code) ==
    /\ pc = "running"
    /\ fuel > 0
    /\ Commit(on_assert_failed(clk, err_code))
    /\ UNCHANGED <<vm, hist>>

\* ---------------------------------------------- the AccountId constructors

\* The low bits an identifier is completed with.
LowBits == {FromInt(0), FromInt(\b1111), FromInt(\b00011111), FromInt(\b11111111)}

\* Values offered to the conversions: identifiers of the mock constants and
\* of each rejection, the modulus, its neighbours and u64::MAX.
U64Samples ==
    {<<\h3720, \h91A5, \h9C4D, \hF13D>>, <<\h0123, \h4567, \h89AB, \hCDEF>>,
     <<\h6EC0, 0, 0, 0>>, <<\hA700, 0, 0, 0>>,
     <<\h4000, 0, 0, \h001F>>, <<\h4000, 0, 0, \h0007>>,
     <<\hC000, 0, 0, \h00FF>>, <<\h8000, 0, 0, \h000F>>,
     <<\h8000, 0, 0, \h0007>>, ZERO,
     <<\hFFFF, \hFFFF, 0, 0>>, M, <<\hFFFF, \hFFFF, 0, 2>>,
     <<\hFFFF, \hFFFF, \hFFFF, \hFFFF>>}
        \cup {account_id(t, m, r) :
                 t \in AccountTypes, m \in AccountStorageTypes, r \in LowBits}

\* Felts: the values below the modulus.
FeltSamples == {v \in U64Samples : Less(v, M)}

\* Little-endian byte arrays: 0xb0a10002030000ff, the modulus, one with
\* four ones and one with storage bits 01.
ByteSamples ==
    {<<255, 0, 0, 3, 2, 0, 161, 176>>, <<1, 0, 0, 0, 255, 255, 255, 255>>,
     <<15, 0, 0, 0, 0, 0, 0, 0>>, <<255, 0, 0, 0, 0, 0, 0, 64>>}

\* Texts offered to from_hex: upper-case digits, no prefix, too short, a
\* character that is no digit, and the modulus.
HexTexts ==
    {<<"0", "x", "0", "1", "2", "3", "4", "5", "6", "7",
       "8", "9", "A", "B", "C", "D", "E", "F">>,
     <<"0", "0", "0", "1", "2", "3", "4", "5", "6", "7",
       "8", "9", "a", "b", "c", "d", "e", "f">>,
     <<"0", "x", "1", "f">>,
     <<"0", "x", "0", "1", "2", "3", "4", "5", "6", "7",
       "8", "9", "a", "b", "c", "d", "e", "g">>,
     <<"0", "x", "f", "f", "f", "f", "f", "f", "f", "f",
       "0", "0", "0", "0", "0", "0", "0", "1">>}

Built(via, arg, res) ==
    [NoAccountId EXCEPT !.stage = "built", !.via = via, !.arg = arg, !.res = res]

HostIdle ==
    UNCHANGED <<pc, error, fuel, vm, account_delta, output_notes, adv_stack,
                adv_map, authenticator, rng, generated_signatures,
                acct_procedure_index_map, tx_progress, auth_calls, auth_ret,
                adv_ret, assertion, parts, hist>>

TryFromFelt(value) ==
    /\ acct.stage = "start"
    /\ acct' = Built("felt", value, AccountId_try_from_felt(value))
    /\ HostIdle

TryFromU64(value) ==
    /\ acct.stage = "start"
    /\ acct' = Built("u64", value, AccountId_try_from_u64(value))
    /\ HostIdle

TryFromBytes(value) ==
    /\ acct.stage = "start"
    /\ acct' = Built("bytes", value, AccountId_try_from_bytes(value))
    /\ HostIdle

NewUnchecked(value) ==
    /\ acct.stage = "start"
    /\ acct' = Built("unchecked", value, new_unchecked(value))
    /\ HostIdle

\* AccountId::try_from(account_id(account_type, storage_type, rest))
FromParts(type, storage, rest) ==
    /\ acct.stage = "start"
    /\ LET value == account_id(type, storage, rest)
       IN  acct' = [Built("parts", value, AccountId_try_from_u64(value)) EXCEPT
                       !.type = type, !.storage = storage]
    /\ HostIdle

\* AccountId::new in a release (testing = FALSE) or a testing build.
New(seed, testing) ==
    /\ acct.stage = "start"
    /\ LET digest == compute_digest(seed, 0, 0)
       IN  acct' = [Built("new", digest[1], AccountId_new(seed, 0, 0, testing))
                      EXCEPT !.digest = digest, !.testing = testing]
    /\ HostIdle

ToHex ==
    /\ acct.stage = "built"
    /\ acct.res.ok
    /\ acct' = [acct EXCEPT !.stage = "hexed", !.text = to_hex(acct.res.id)]
    /\ HostIdle

FromHex ==
    /\ acct.stage = "hexed"
    /\ acct' = [acct EXCEPT !.stage = "parsed", !.back = from_hex(acct.text)]
    /\ HostIdle

\* from_hex of a text no to_hex made.
FromHexText(text) ==
    /\ acct.stage = "start"
    /\ acct' = [NoAccountId EXCEPT
                   !.stage = "parsed", !.via = "text", !.text = text,
                   !.back = from_hex(text)]
    /\ HostIdle

\* The executor consumes the host at the end of the execution.
IntoParts ==
    /\ pc = "running"
    /\ pc' = "finalized"
    /\ parts' = into_parts
    /\ UNCHANGED <<error, fuel, vm, account_delta, output_notes, adv_stack,
                   adv_map, authenticator, rng, generated_signatures,
                   acct_procedure_index_map, tx_progress, auth_calls,
                   auth_ret, adv_ret, assertion, acct, hist>>

\* ------------------------------------------------------------ specifications

Authenticators ==
    {[kind |-> "none", keys |-> {}],
     [kind |-> "unit", keys |-> {}],
     [kind |-> "basic", keys |-> {"K1"}]}

\* The advice map the host is built with: empty, or holding a signature
\* made before the execution.
AdvMaps ==
    {EmptyMap,
     [k \in {SignatureKey("K2", "M1")} |-> <<Elt("presigned", "K2", "M1", 0, 0)>>]}

InitialAccount(n) ==
    [storage |-> [sl \in ValidSlots |-> IF sl = 0 THEN W0001 ELSE W1000],
     nonce |-> n,
     init_storage |-> [sl \in ValidSlots |-> IF sl = 0 THEN W0001 ELSE W1000],
     init_nonce |-> n]

\* TransactionHost::new
new(account, adv, auth, budget) ==
    /\ pc = "running"
    /\ error = NoError
    /\ fuel = budget
    /\ vm = account
    /\ account_delta = AccountDeltaTracker_new
    /\ output_notes = EmptyMap
    /\ adv_stack = <<>>
    /\ adv_map = adv
    /\ authenticator = auth
    /\ rng = 0
    /\ generated_signatures = EmptyMap
    /\ acct_procedure_index_map = EmptyMap
    /\ tx_progress = TransactionProgress_default
    /\ auth_calls = EmptyMap
    /\ auth_ret = NoCall
    /\ adv_ret = HostResponse_None
    /\ assertion = NoAssertion
    /\ acct = NoAccountId
    /\ parts = [account_delta |-> into_delta(AccountDeltaTracker_new),
                output_notes |-> <<>>,
                generated_signatures |-> EmptyMap]
    /\ hist = [added |-> [k \in AssetKeys |-> 0],
               removed |-> [k \in AssetKeys |-> 0],
               creation |-> <<>>,
               last_nonce |-> None,
               nonce_sum |-> 0,
               nonce_events |-> 0,
               map_writes |-> EmptyMap,
               emitted |-> EmptyMap,
               scenario |-> 0]

Init ==
    \E n \in 0..1, adv \in AdvMaps, auth \in Authenticators :
        new(InitialAccount(n), adv, auth, MaxEvents)

Next ==
    \/ \E e \in EventIds, ctx \in Contexts :
           \E st \in KernelStacks(e) : Event(e, ctx, st)
    \/ \E inj \in Injectors : \E st \in SignatureStacks : SetAdvice(inj, st)
    \/ IntoParts

Spec == Init /\ [][Next]_vars

\* Account events only.
InitDelta ==
    \E n \in 0..1 :
        new(InitialAccount(n), EmptyMap, [kind |-> "none", keys |-> {}],
            MaxDeltaEvents)

NextDelta ==
    \/ \E e \in AccountEvents, ctx \in Contexts :
           \E st \in KernelStacks(e) : Event(e, ctx, st)
    \/ IntoParts

SpecDelta == InitDelta /\ [][NextDelta]_vars

\* Note events only.
InitNotes ==
    new(InitialAccount(0), EmptyMap, [kind |-> "none", keys |-> {}],
        MaxNoteEvents)

NextNotes ==
    \/ \E e \in NoteEvents, ctx \in Contexts :
           \E st \in KernelStacks(e) : Event(e, ctx, st)
    \/ IntoParts

SpecNotes == InitNotes /\ [][NextNotes]_vars

\* Note events beside nonce increments.
NextNoteAssets ==
    \/ NextNotes
    \/ \E st \in KernelStacks("AccountBeforeIncrementNonce") :
           Event("AccountBeforeIncrementNonce", ROOT, st)

SpecNoteAssets == InitNotes /\ [][NextNoteAssets]_vars

\* Signature requests only.
InitSig ==
    \E adv \in AdvMaps, auth \in Authenticators :
        new(InitialAccount(0), adv, auth, MaxSigRequests)

NextSig ==
    \/ \E st \in SignatureStacks : SetAdvice("SigToStack", st)
    \/ IntoParts

SpecSig == InitSig /\ [][NextSig]_vars

\* Account events and assertion failures.
InitAssert ==
    new(InitialAccount(0), EmptyMap, [kind |-> "none", keys |-> {}], MaxEvents)

NextAssert ==
    \/ \E e \in AccountEvents, ctx \in Contexts :
           \E st \in KernelStacks(e) : Event(e, ctx, st)
    \/ \E clk \in Clocks, code \in AssertCodes : AssertFailed(clk, code)
    \/ IntoParts

SpecAssert == InitAssert /\ [][NextAssert]_vars

\* Storage events, beside a vault event and a nonce event, in the root
\* context.
StorageEvents ==
    {"AccountStorageBeforeSetItem", "AccountStorageAfterSetItem",
     "AccountStorageBeforeSetMapItem", "AccountStorageAfterSetMapItem"}

InitStorage ==
    new(InitialAccount(0), EmptyMap, [kind |-> "none", keys |-> {}],
        MaxStorageEvents)

NextStorage ==
    \/ \E e \in StorageEvents
                  \cup {"AccountVaultAfterAddAsset", "AccountBeforeIncrementNonce"} :
           \E st \in KernelStacks(e) : Event(e, ROOT, st)
    \/ \E st \in MapItemStacks : Event("AccountStorageAfterSetMapItem", ROOT, st)
    \/ \E e \in {"AccountStorageAfterSetItem", "AccountStorageAfterSetMapItem"} :
           \E st \in BadSlotStacks : Event(e, ROOT, st)
    \/ IntoParts

SpecStorage == InitStorage /\ [][NextStorage]_vars

\* Every callback that can return an error. The clock advances by one
\* cycle with each callback.
CallbackClk == MaxCallbacks - fuel

InitCallbacks ==
    \E adv \in AdvMaps, auth \in Authenticators :
        new(InitialAccount(0), adv, auth, MaxCallbacks)

NextCallbacks ==
    \/ \E e \in EventIds, ctx \in Contexts :
           \E st \in KernelStacks(e) : Event(e, ctx, st)
    \/ \E inj \in Injectors : \E st \in SignatureStacks : SetAdvice(inj, st)
    \/ \E t \in TraceIds \ {"NoteExecutionStart"} :
           Trace(t, ROOT, CallbackClk, [ptr |-> NoAddr, at |-> NoNote])
    \/ \E mem \in Memories : Trace("NoteExecutionStart", ROOT, CallbackClk, mem)
    \/ IntoParts

SpecCallbacks == InitCallbacks /\ [][NextCallbacks]_vars

\* One note created and assets added to it up to the bound and beyond.
AssetBoundStacks ==
    {[DefaultStack EXCEPT !.note_idx = 0, !.meta = "m1",
                          !.asset = FungibleAsset(FaucetF, 1)]}

InitAssetBound ==
    new(InitialAccount(0), EmptyMap, [kind |-> "none", keys |-> {}],
        MaxAssetEvents)

NextAssetBound ==
    \/ \E st \in AssetBoundStacks : Event("NoteAfterCreated", ROOT, st)
    \/ \E st \in AssetBoundStacks : Event("NoteBeforeAddAsset", ROOT, st)

SpecAssetBound == InitAssetBound /\ [][NextAssetBound]_vars

\* Procedure index requests only, from either context.
InitProc ==
    new(InitialAccount(0), EmptyMap, [kind |-> "none", keys |-> {}],
        MaxProcEvents)

NextProc ==
    \/ \E ctx \in Contexts :
           \E st \in KernelStacks("AccountPushProcedureIndex") :
               Event("AccountPushProcedureIndex", ctx, st)
    \/ IntoParts

SpecProc == InitProc /\ [][NextProc]_vars

\* Advice requests of every kind, between the nonce and vault events of an
\* execution.
InitAdvice ==
    \E adv \in AdvMaps, auth \in Authenticators :
        new(InitialAccount(0), adv, auth, MaxAdviceRequests)

NextAdvice ==
    \/ \E inj \in Injectors : \E st \in SignatureStacks : SetAdvice(inj, st)
    \/ \E ex \in Extractors : GetAdvice(ex)
    \/ \E st \in KernelStacks("AccountBeforeIncrementNonce") :
           Event("AccountBeforeIncrementNonce", ROOT, st)

SpecAdvice == InitAdvice /\ [][NextAdvice]_vars

\* The trace markers of one execution, from any context. The clock advances
\* by one cycle with each callback.
TraceClk == MaxTraces - fuel

\* The memories of the callbacks above, and an address far above u32::MAX
\* whose low 32 bits are not zero.
TraceMemories ==
    Memories \cup {[ptr |-> SomeAddr(<<32768, 0, 0, 8>>), at |-> SomeNote("n1")]}

InitTrace ==
    new(InitialAccount(0), EmptyMap, [kind |-> "none", keys |-> {}], MaxTraces)

NextTrace ==
    \/ \E t \in TraceIds \ {"NoteExecutionStart"}, ctx \in Contexts :
           Trace(t, ctx, TraceClk, [ptr |-> NoAddr, at |-> NoNote])
    \/ \E ctx \in Contexts, mem \in TraceMemories :
           Trace("NoteExecutionStart", ctx, TraceClk, mem)

SpecTrace == InitTrace /\ [][NextTrace]_vars

\* The AccountId constructors and conversions, beside an idle host.
InitId ==
    new(InitialAccount(0), EmptyMap, [kind |-> "none", keys |-> {}], 0)

NextId ==
    \/ \E v \in FeltSamples : TryFromFelt(v)
    \/ \E v \in U64Samples : TryFromU64(v)
    \/ \E b \in ByteSamples : TryFromBytes(b)
    \/ \E v \in FeltSamples : NewUnchecked(v)
    \/ \E t \in AccountTypes, m \in AccountStorageTypes, r \in LowBits :
           FromParts(t, m, r)
    \/ \E seed \in Seeds, testing \in BOOLEAN : New(seed, testing)
    \/ ToHex
    \/ FromHex
    \/ \E text \in HexTexts : FromHexText(text)

SpecId == InitId /\ [][NextId]_vars


\* ==================================================================== claims

Delta == parts.account_delta

\* C1: for every sequence of set-item events on one slot, the finalized
\* delta holds the last value written to the slot, and no entry for the slot
\* when that value equals the slot's value before the execution.
C1_StorageDeltaIsNet ==
    pc = "finalized" =>
        \A sl \in ValidSlots :
            IF vm.storage[sl] = vm.init_storage[sl]
            THEN sl \notin DOMAIN Delta.storage
            ELSE /\ sl \in DOMAIN Delta.storage
                 /\ Delta.storage[sl] = vm.storage[sl]

\* C2: a signature request for a (public key, message) pair the
\* authenticator has signed before in this execution pushes the elements of
\* that first signature again.
C2_SigningIdempotent ==
    [][\A st \in SignatureStacks :
          LET k == SignatureKey(st.pk, st.msg)
          IN  (/\ k \in DOMAIN generated_signatures
               /\ SetAdvice("SigToStack", st)
               /\ pc' = "running")
              => adv_stack' = adv_stack \o generated_signatures[k]]_vars

\* C3: get_signature is invoked at most once per (public key, message)
\* pair, and a request whose key is in generated_signatures or in the
\* advice map does not reach the authenticator.
C3_AuthenticatorCalledOnce ==
    /\ \A k \in DOMAIN auth_calls : auth_calls[k] <= 1
    /\ \A k \in DOMAIN auth_calls : k \notin DOMAIN adv_map

\* C4: every valid event emitted in a non-root context fails with the
\* context-violation EventError and leaves the delta tracker, the note
\* builders, the advice stack and the generated signatures as they were.
C4_NonRootEventRejected ==
    [][\A e \in TransactionEvents : \A st \in KernelStacks(e) :
          \A ctx \in Contexts \ {ROOT} :
              Event(e, ctx, st) =>
                  /\ pc' = "aborted"
                  /\ error' = Err("EventError",
                                  "can only be emitted from the root context", e)
                  /\ UNCHANGED <<account_delta, output_notes, adv_stack,
                                 generated_signatures>>]_vars

\* A before event, a no-op in the root context, rejected in another context
\* after the tracker has recorded something.
C4_Witness ==
    /\ pc = "aborted"
    /\ error = Err("EventError", "can only be emitted from the root context",
                   "AccountStorageBeforeSetItem")
    /\ account_delta # AccountDeltaTracker_new

\* C5: the note indices held are 0..n-1 for n accepted note-created events,
\* and into_parts returns the notes by increasing index, which is the order
\* of their creation.
C5_NotesAppendOnly ==
    LET n == Len(hist.creation)
    IN  /\ DOMAIN output_notes = 0..(n - 1)
        /\ pc = "finalized" =>
              /\ Len(parts.output_notes) = n
              /\ \A i \in 1..n :
                    /\ parts.output_notes[i] = build(output_notes[i - 1])
                    /\ parts.output_notes[i].meta = hist.creation[i]

C5_Witness ==
    /\ pc = "finalized"
    /\ Len(parts.output_notes) = 2
    /\ parts.output_notes[1].meta = "m2"
    /\ parts.output_notes[2].meta = "m1"
    /\ parts.output_notes[2].assets # <<>>

\* C6: a note add-asset event for an index no created note has fails with
\* MissingNote, reported as an event error, and changes no note builder.
C6_MissingNoteError ==
    [][\A st \in KernelStacks("NoteBeforeAddAsset") :
          (/\ st.note_idx \notin DOMAIN output_notes
           /\ Event("NoteBeforeAddAsset", ROOT, st))
          => /\ pc' = "aborted"
             /\ error' = Err("EventError", "MissingNote", "-")
             /\ output_notes' = output_notes]_vars

\* C7: a signature request for a public key the authenticator has no secret
\* key for fails, pushes nothing, stores no signature, and the error the VM
\* receives identifies the unknown key.
C7_UnknownKeyReported ==
    [][\A st \in SignatureStacks :
          (/\ authenticator.kind = "basic"
           /\ st.pk \notin authenticator.keys
           /\ SignatureKey(st.pk, st.msg) \notin DOMAIN adv_map
           /\ SetAdvice("SigToStack", st))
          => /\ pc' = "aborted"
             /\ adv_stack' = adv_stack
             /\ generated_signatures' = generated_signatures
             /\ error'.detail = "UnknownKey"]_vars

\* C8: the finalized delta of a fungible faucet is the sum of the amounts
\* added minus the sum of the amounts removed, and absent when that is zero.
C8_FungibleNet ==
    pc = "finalized" =>
        LET net == hist.added[FaucetF] - hist.removed[FaucetF]
        IN  IF net = 0
            THEN FaucetF \notin DOMAIN Delta.vault.fungible
            ELSE /\ FaucetF \in DOMAIN Delta.vault.fungible
                 /\ Delta.vault.fungible[FaucetF] = net

C8_Witness ==
    /\ pc = "finalized"
    /\ hist.added[FaucetF] = 101
    /\ hist.removed[FaucetF] = 2
    /\ Delta.vault.fungible[FaucetF] = 99

\* C9: a non-fungible asset added and removed equally often (add then
\* remove, or remove then add) has no entry in the finalized delta.
C9_NonFungibleCancels ==
    pc = "finalized" =>
        \A d \in NonFungibles :
            (hist.added[d] = hist.removed[d]) =>
                d \notin DOMAIN Delta.vault.non_fungible

C9_Witness ==
    /\ pc = "finalized"
    /\ hist.added["nft"] = 1
    /\ hist.removed["nft"] = 1
    /\ Delta.vault.non_fungible = EmptyMap

\* C10: the scenario (slot 0 holds [0,0,0,1]; set it to [0,0,0,1], set it to
\* [1,0,0,0], increment the nonce to N+1, add 100 of faucet F) ends with
\* nonce N+1, the one storage entry slot 0 = [1,0,0,0], the one vault entry
\* F = +100, and nothing else.
C10_Scenario ==
    (pc = "finalized" /\ hist.scenario = 4) =>
        Delta = [nonce |-> Some(vm.init_nonce + 1),
                 storage |-> [sl \in {0} |-> W1000],
                 maps |-> EmptyMap,
                 vault |-> [fungible |-> [f \in {FaucetF} |-> 100],
                            non_fungible |-> EmptyMap]]

C10_Witness ==
    /\ pc = "finalized"
    /\ hist.scenario = 4
    /\ vm.init_nonce = 1
    /\ vm.init_storage[0] = W0001

DeltaSamples ==
    {into_delta(AccountDeltaTracker_new),
     into_delta(increment_nonce(AccountDeltaTracker_new, 1)),
     into_delta(slot_update(AccountDeltaTracker_new, 0, W1000)),
     into_delta(vault_add_asset(AccountDeltaTracker_new,
                                FungibleAsset(FaucetF, 100)))}

\* C12: in every state of an execution with a BasicAuthenticator, for every
\* public key and message, get_signature called with the current random
\* state returns for any other account delta what it returns for the delta
\* the host would pass: the same elements or the same error.
C12_DeltaInformational ==
    authenticator.kind = "basic" =>
        \A st \in SignatureStacks : \A d \in DeltaSamples :
            get_signature(authenticator, st.pk, st.msg, d, rng)
                = get_signature(authenticator, st.pk, st.msg,
                                into_delta(account_delta), rng)

\* A signature made after the delta recorded a storage write.
C12_Witness ==
    /\ authenticator.kind = "basic"
    /\ account_delta.slot_updates # EmptyMap
    /\ generated_signatures # EmptyMap
    /\ into_delta(account_delta) \notin DeltaSamples

\* The n topmost elements of the advice stack in the order they are popped.
Popped(stk, n) == [i \in 1..n |-> stk[Len(stk) + 1 - i]]

\* C13: a signature request the authenticator answers leaves the advice
\* stack as it was with the signature on top, so that popping yields the
\* nonce elements in their original order, then the expanded key, then the
\* signature polynomial, then the product; what the authenticator returned
\* (and the host stored) is the reverse of that sequence.
C13_FalconOrder ==
    [][\A st \in SignatureStacks :
          LET k == SignatureKey(st.pk, st.msg)
              n == Len(adv_stack') - Len(adv_stack)
              popped == Popped(adv_stack', n)
          IN  (/\ k \notin DOMAIN adv_map
               /\ SetAdvice("SigToStack", st)
               /\ pc' = "running")
              => /\ SubSeq(adv_stack', 1, Len(adv_stack)) = adv_stack
                 /\ [i \in 1..n |-> popped[i].tag]
                        = <<"nonce", "nonce", "h", "s2", "pi">>
                 /\ popped[1].i = 0
                 /\ popped[2].i = 1
                 /\ \A i \in 3..n : popped[i].key = st.pk
                 /\ \A i \in 4..n : popped[i].msg = st.msg
                 /\ generated_signatures'[k] = Reverse(popped)]_vars

\* A signature on top of the advice stack.
C13_Witness ==
    /\ pc = "running"
    /\ Len(adv_stack) >= 5
    /\ adv_stack[Len(adv_stack)].tag = "nonce"
    /\ adv_stack[Len(adv_stack) - 4].tag = "pi"
    /\ SignatureKey("K1", "M2") \in DOMAIN generated_signatures

\* C14: the unit authenticator returns RejectedSignature and no elements for
\* every public key, message and account delta; an execution built with it
\* stores no signature, pushes no element an authenticator made, and ends
\* at the first request that reaches it.
C14_UnitAuthenticatorRejects ==
    /\ \A st \in SignatureStacks : \A d \in DeltaSamples :
          LET g == unit_get_signature(st.pk, st.msg, d, rng)
          IN  ~g.ok /\ g.err = "RejectedSignature" /\ g.sig = <<>>
    /\ authenticator.kind = "unit" =>
          /\ generated_signatures = EmptyMap
          /\ \A i \in DOMAIN adv_stack : adv_stack[i].tag = "presigned"
          /\ auth_calls # EmptyMap =>
                /\ auth_ret = [ok |-> FALSE, err |-> "RejectedSignature"]
                /\ pc = "aborted"

\* The unit authenticator asked after a presigned signature was served.
C14_Witness ==
    /\ authenticator.kind = "unit"
    /\ auth_ret = [ok |-> FALSE, err |-> "RejectedSignature"]
    /\ error = Err("FailedSignatureGeneration", "Error generating signature", "-")
    /\ adv_stack # <<>>

\* C15: the signature map into_parts returns has an entry for a pair iff
\* the authenticator signed it in this execution, every signature element
\* the host pushed for the pair is in the stored sequence, and no pair the
\* advice map served has an entry.
C15_SignatureMapExact ==
    pc = "finalized" =>
        \A st \in SignatureStacks :
            LET k == SignatureKey(st.pk, st.msg)
                sigs == parts.generated_signatures
            IN  /\ k \in DOMAIN sigs <=> Count(auth_calls, k) > 0
                /\ k \in DOMAIN adv_map => k \notin DOMAIN sigs
                /\ \A i \in DOMAIN adv_stack :
                      (/\ adv_stack[i].tag \in {"s2", "pi"}
                       /\ adv_stack[i].key = st.pk
                       /\ adv_stack[i].msg = st.msg)
                      => /\ k \in DOMAIN sigs
                         /\ \E j \in DOMAIN sigs[k] : sigs[k][j] = adv_stack[i]

\* The messages the array pairs with a code.
ListedMessages(code) ==
    {ERROR_MESSAGES[i][2] :
        i \in {j \in DOMAIN ERROR_MESSAGES : ERROR_MESSAGES[j][1] = code}}

\* C16: an assertion failure ends the run with a FailedAssertion that
\* carries the clock cycle, the code as raised, and as message the one the
\* array pairs with the code, or "Unknown error" for a code the array does
\* not list; the delta tracker, the notes, the advice stack and map, the
\* signatures, the procedure index cache and the authenticator are as before.
C16_AssertionTranslated ==
    [][\A clk \in Clocks, code \in AssertCodes :
          AssertFailed(clk, code) =>
              /\ pc' = "aborted"
              /\ error'.kind = "FailedAssertion"
              /\ assertion'.clk = clk
              /\ assertion'.err_code = code
              /\ IF ListedMessages(code) = {}
                 THEN assertion'.err_msg = "Unknown error"
                 ELSE ListedMessages(code) = {assertion'.err_msg}
              /\ error'.detail = assertion'.err_msg
              /\ UNCHANGED <<account_delta, output_notes, adv_stack, adv_map,
                             generated_signatures, acct_procedure_index_map,
                             authenticator, rng>>]_vars

\* A listed code translated after the tracker has recorded a write.
C16_Witness ==
    /\ pc = "aborted"
    /\ assertion = [clk |-> 1, err_code |-> 131115,
                    err_msg |->
                        "ERR_VALUT_GET_BALANCE_PROC_CAN_BE_CALLED_ONLY_WITH_FUNGIBLE_FAUCET"]
    /\ account_delta # AccountDeltaTracker_new

\* Bit i of the value the caller offered, from the bytes or from the u64.
ArgBit(i) ==
    IF acct.via = "bytes"
    THEN (acct.arg[(i \div 8) + 1] \div (2 ^ (i % 8))) % 2
    ELSE BitAt(acct.arg, i)

ArgOnes == Cardinality({i \in 0..63 : ArgBit(i) = 1})

\* Below the modulus: the high 32 bits are not all ones, or the low 32 bits
\* are all zeros.
ArgIsFieldElement ==
    \/ \E i \in 32..63 : ArgBit(i) = 0
    \/ \A i \in 0..31 : ArgBit(i) = 0

\* At least five ones and storage bits 00 or 10.
ValidId(x) ==
    /\ Cardinality({i \in 0..63 : BitAt(x, i) = 1}) >= 5
    /\ BitAt(x, 62) = 0

\* C17: for an identifier that is valid, however it was made, to_hex gives
\* "0x" and the sixteen lower-case digits of its value, most significant
\* first, and from_hex of that text succeeds with the same identifier.
C17_HexRoundTrip ==
    (acct.stage = "parsed" /\ acct.via # "text" /\ ValidId(acct.res.id)) =>
        /\ Len(acct.text) = 18
        /\ SubSeq(acct.text, 1, 2) = <<"0", "x">>
        /\ \A k \in 1..16 :
              acct.text[k + 2] =
                  HexDigits[1 + BitAt(acct.res.id, 4 * (16 - k))
                              + 2 * BitAt(acct.res.id, 4 * (16 - k) + 1)
                              + 4 * BitAt(acct.res.id, 4 * (16 - k) + 2)
                              + 8 * BitAt(acct.res.id, 4 * (16 - k) + 3)]
        /\ acct.back.ok
        /\ acct.back.id = acct.res.id

\* 0x372091a59c4df13d through try_from, to_hex and from_hex.
C17_Witness ==
    /\ acct.stage = "parsed"
    /\ acct.via = "u64"
    /\ acct.res.id = <<\h3720, \h91A5, \h9C4D, \hF13D>>
    /\ acct.text[3] = "3"
    /\ acct.text[18] = "d"
    /\ acct.back.ok

Conversions == {"felt", "u64", "bytes", "parts"}

\* C19 as stated: a conversion accepts a value iff it is a field element
\* with at least five ones and storage bits 00 or 10; a value with fewer
\* ones is rejected with the too-few-ones error, and one with enough ones
\* and other storage bits with InvalidAccountStorageType.
C19_TryFromErrors ==
    acct.via \in Conversions =>
        /\ acct.res.ok <=>
              (ArgIsFieldElement /\ ArgOnes >= 5 /\ ArgBit(62) = 0)
        /\ ArgOnes < 5 => acct.res.err = "AccountIdTooFewOnes"
        /\ (ArgOnes >= 5 /\ ArgBit(62) = 1) =>
              acct.res.err = "InvalidAccountStorageType"

\* C19 amended: a conversion accepts a value iff it is a field element
\* with at least five ones and storage bits 00 or 10, and returns it; a
\* value that is no field element is rejected with
\* AccountIdInvalidFieldElement; a field element with fewer than five ones
\* with the too-few-ones error, whatever its storage bits; a field element
\* with enough ones and storage bits 01 or 11 with
\* InvalidAccountStorageType.
C19_TryFromErrorsInOrder ==
    acct.via \in Conversions =>
        /\ acct.res.ok <=>
              (ArgIsFieldElement /\ ArgOnes >= 5 /\ ArgBit(62) = 0)
        /\ acct.res.ok => \A i \in 0..63 : BitAt(acct.res.id, i) = ArgBit(i)
        /\ ~ArgIsFieldElement =>
              acct.res.err = "AccountIdInvalidFieldElement"
        /\ (ArgIsFieldElement /\ ArgOnes < 5) =>
              acct.res.err = "AccountIdTooFewOnes"
        /\ (ArgIsFieldElement /\ ArgOnes >= 5 /\ ArgBit(62) = 1) =>
              acct.res.err = "InvalidAccountStorageType"

\* The modulus offered as a u64.
C19_Witness ==
    /\ acct.via = "u64"
    /\ acct.arg = M
    /\ ArgBit(62) = 1
    /\ acct.res.err = "AccountIdInvalidFieldElement"

\* C20: an identifier with a storage mode in bits 62-63, an account type in
\* bits 60-61 and low bits that bring it to five ones is accepted, and
\* account_type and storage_type return that type and that mode;
\* storage_type panics on no identifier a checked constructor returned.
C20_TypeAndStorageRoundTrip ==
    /\ (acct.via = "parts" /\ ArgOnes >= 5) =>
          /\ acct.res.ok
          /\ account_type(acct.res.id) = acct.type
          /\ storage_type(acct.res.id) = acct.storage
    /\ (acct.via \in Conversions \cup {"new"} /\ acct.res.ok) =>
          storage_type(acct.res.id) \in AccountStorageTypes
    /\ (acct.stage = "parsed" /\ acct.back.ok) =>
          storage_type(acct.back.id) \in AccountStorageTypes

\* A non-fungible faucet, off chain.
C20_Witness ==
    /\ acct.via = "parts"
    /\ acct.type = "NonFungibleFaucet"
    /\ acct.storage = "OffChain"
    /\ acct.res.ok
    /\ BitAt(acct.res.id, 63) = 1
    /\ BitAt(acct.res.id, 62) = 0
    /\ BitAt(acct.res.id, 61) = 1
    /\ BitAt(acct.res.id, 60) = 1

\* C21: ACCOUNT_ISFAUCET_MASK is bit 61 alone, and for every identifier,
\* checked or not, is_faucet is true exactly when that bit is set and
\* is_regular_account exactly when it is clear: one of the two holds, never
\* both.
C21_FaucetBitPartitions ==
    /\ \A i \in 0..63 : BitAt(ACCOUNT_ISFAUCET_MASK, i) = 1 <=> i = 61
    /\ (acct.stage # "start" /\ acct.res.ok) =>
          LET id == acct.res.id
              bit == BitAnd(id, ACCOUNT_ISFAUCET_MASK) # ZERO
          IN  /\ is_faucet(id) <=> bit
              /\ AccountId_is_regular_account(id) <=> ~bit
              /\ is_faucet(id) # AccountId_is_regular_account(id)

\* A non-fungible faucet with storage bits 01, made by new_unchecked.
C21_Witness ==
    /\ acct.via = "unchecked"
    /\ acct.res.ok
    /\ BitAt(acct.res.id, 62) = 1
    /\ BitAt(acct.res.id, 61) = 1
    /\ BitAt(acct.res.id, 60) = 1
    /\ is_faucet(acct.res.id)
    /\ ~AccountId_is_regular_account(acct.res.id)

\* C22: a set-item event with a valid slot index, handled in the root
\* context, succeeds; when the new value equals the slot's previous value
\* the tracker is unchanged; when it differs the tracker's entry of the slot
\* becomes the new value and the entries of the other slots, the storage
\* maps, the vault tracker and the nonce delta are unchanged.
C22_SetItemOnlyIfChanged ==
    [][\A st \in KernelStacks("AccountStorageAfterSetItem") :
          (/\ st.slot \in ValidSlots
           /\ Event("AccountStorageAfterSetItem", ROOT, st))
          => /\ pc' = "running"
             /\ IF st.new = vm.storage[st.slot]
                THEN account_delta' = account_delta
                ELSE /\ DOMAIN account_delta'.slot_updates =
                            DOMAIN account_delta.slot_updates \cup {st.slot}
                     /\ account_delta'.slot_updates[st.slot] = st.new
                     /\ \A o \in DOMAIN account_delta.slot_updates \ {st.slot} :
                            account_delta'.slot_updates[o] =
                                account_delta.slot_updates[o]
                     /\ account_delta'.maps_updates = account_delta.maps_updates
                     /\ account_delta'.fungible = account_delta.fungible
                     /\ account_delta'.non_fungible = account_delta.non_fungible
                     /\ account_delta'.nonce_delta = account_delta.nonce_delta]_vars

\* Slot 0 written with the value it held and then with another one.
C22_Witness ==
    /\ hist.scenario = 2
    /\ DOMAIN account_delta.slot_updates = {0}
    /\ account_delta.slot_updates[0] = W1000
    /\ vm.storage[0] = W1000

\* C27: after any sequence of set-map-item events with valid slot indices,
\* the tracker holds one entry for each (slot, key) written and no other,
\* and the entry is the last value written for that key, whether or not it
\* differs from the value written before.
C27_MapItemLastWriteWins ==
    /\ \A sk \in DOMAIN hist.map_writes :
          /\ sk[1] \in DOMAIN account_delta.maps_updates
          /\ sk[2] \in DOMAIN account_delta.maps_updates[sk[1]]
          /\ account_delta.maps_updates[sk[1]][sk[2]] = hist.map_writes[sk]
    /\ \A sl \in DOMAIN account_delta.maps_updates :
          \A k \in DOMAIN account_delta.maps_updates[sl] :
              <<sl, k>> \in DOMAIN hist.map_writes
    /\ pc = "finalized" => Delta.maps = account_delta.maps_updates

\* Two keys in the map of slot 0 and one in the map of the last slot, after
\* four events.
C27_Witness ==
    /\ fuel = 0
    /\ pc = "finalized"
    /\ DOMAIN Delta.maps = ValidSlots
    /\ Delta.maps[0] = [k \in Words |-> IF k = W0001 THEN W1000 ELSE W0001]
    /\ DOMAIN Delta.maps[NUM_STORAGE_SLOTS - 1] = {W1000}
    /\ Delta.storage = EmptyMap

\* The handler on_event calls for each of the two storage events.
StorageHandler(e, st) ==
    IF e = "AccountStorageAfterSetItem"
    THEN on_account_storage_after_set_item(st)
    ELSE on_account_storage_after_set_map_item(st)

\* C28: a set-item or set-map-item event whose slot index is at least
\* NUM_STORAGE_SLOTS fails with InvalidStorageSlotIndex of that index and
\* leaves the tracker unchanged; an index the handlers accept is below 256
\* and equal to its 8-bit conversion, and it is the tracker's key.
C28_InvalidSlotIndexRejected ==
    [][\A e \in {"AccountStorageAfterSetItem", "AccountStorageAfterSetMapItem"} :
          \A st \in KernelStacks(e) \cup MapItemStacks \cup BadSlotStacks :
              Event(e, ROOT, st) =>
                  IF st.slot >= NUM_STORAGE_SLOTS
                  THEN /\ pc' = "aborted"
                       /\ StorageHandler(e, st).err =
                              Err("InvalidStorageSlotIndex", ToString(st.slot), "-")
                       /\ error' = Err("EventError", "InvalidStorageSlotIndex", "-")
                       /\ account_delta' = account_delta
                  ELSE /\ pc' = "running"
                       /\ AsU8(st.slot) = st.slot
                       /\ account_delta' # account_delta =>
                              \/ /\ e = "AccountStorageAfterSetItem"
                                 /\ st.slot \in DOMAIN account_delta'.slot_updates
                              \/ /\ e = "AccountStorageAfterSetMapItem"
                                 /\ st.slot \in DOMAIN account_delta'.maps_updates]_vars

\* An index out of range rejected after the tracker has recorded writes.
C28_Witness ==
    /\ pc = "aborted"
    /\ error = Err("EventError", "InvalidStorageSlotIndex", "-")
    /\ account_delta.slot_updates # EmptyMap
    /\ account_delta.maps_updates # EmptyMap

\* C29: an asset event whose stack word is no asset fails, a vault event
\* with MalformedAssetOnAccountVaultUpdate and a note add-asset event with
\* MalformedAsset, and the vault tracker and the note builders are unchanged.
C29_MalformedAssetRejected ==
    [][\A e \in {"AccountVaultAfterAddAsset", "AccountVaultAfterRemoveAsset",
                 "NoteBeforeAddAsset"} :
          \A st \in KernelStacks(e) :
              (st.asset = MalformedWord /\ Event(e, ROOT, st)) =>
                  /\ pc' = "aborted"
                  /\ error' = Err("EventError",
                                  IF e = "NoteBeforeAddAsset"
                                  THEN "MalformedAsset"
                                  ELSE "MalformedAssetOnAccountVaultUpdate",
                                  "-")
                  /\ account_delta' = account_delta
                  /\ output_notes' = output_notes]_vars

\* C30: an accepted note add-asset event appends the asset of its stack at
\* the end of the asset list of the note with its index, so that the list
\* holds the note's assets in the order of their events; the note's
\* metadata, the other notes and the delta tracker are unchanged.
C30_AddAssetAppends ==
    [][\A st \in KernelStacks("NoteBeforeAddAsset") :
          (Event("NoteBeforeAddAsset", ROOT, st) /\ pc' = "running") =>
              /\ st.note_idx \in DOMAIN output_notes
              /\ DOMAIN output_notes' = DOMAIN output_notes
              /\ output_notes'[st.note_idx].assets =
                     Append(output_notes[st.note_idx].assets, st.asset)
              /\ output_notes'[st.note_idx].meta = output_notes[st.note_idx].meta
              /\ \A j \in DOMAIN output_notes \ {st.note_idx} :
                     output_notes'[j] = output_notes[j]
              /\ \A j \in DOMAIN output_notes' :
                     output_notes'[j].assets = hist'.emitted[j]
              /\ account_delta' = account_delta]_vars

\* Two assets on the second note, none on the first, after a nonce increment.
C30_Witness ==
    /\ DOMAIN output_notes = {0, 1}
    /\ output_notes[0].assets = <<>>
    /\ output_notes[1].assets =
           <<FungibleAsset(FaucetF, 100), NonFungibleAsset("nft")>>
    /\ account_delta.nonce_delta # None

\* C23: a callback (event, trace, signature request) that returns an error
\* leaves the delta tracker, the note builders, generated_signatures and
\* the advice stack as they were before it.
C23_FailedCallbackChangesNothing ==
    [][pc' = "aborted" =>
          UNCHANGED <<account_delta, output_notes, generated_signatures,
                      adv_stack>>]_vars

\* A signature request that fails after a signature was generated and pushed.
C23_Witness ==
    /\ pc = "aborted"
    /\ error = Err("FailedSignatureGeneration", "Error generating signature", "-")
    /\ generated_signatures # EmptyMap
    /\ adv_stack # <<>>

\* C25: a signature request whose key is in the advice map succeeds, with
\* or without an authenticator, pushes the mapped values and nothing else,
\* does not call the authenticator and leaves generated_signatures unchanged.
C25_MappedSignaturePushed ==
    [][\A st \in SignatureStacks :
          LET k == SignatureKey(st.pk, st.msg)
          IN  (k \in DOMAIN adv_map /\ SetAdvice("SigToStack", st)) =>
                  /\ pc' = "running"
                  /\ adv_stack' = adv_stack \o adv_map[k]
                  /\ auth_calls' = auth_calls
                  /\ auth_ret' = auth_ret
                  /\ rng' = rng
                  /\ generated_signatures' = generated_signatures]_vars

\* The presigned values pushed twice by a host without authenticator.
C25_Witness ==
    /\ authenticator.kind = "none"
    /\ pc = "running"
    /\ adv_stack = <<Elt("presigned", "K2", "M1", 0, 0),
                     Elt("presigned", "K2", "M1", 0, 0)>>
    /\ generated_signatures = EmptyMap
    /\ auth_calls = EmptyMap

\* C26: on a host built without authenticator, a signature request whose
\* key is not in the advice map fails with FailedSignatureGeneration, pushes
\* nothing and leaves generated_signatures unchanged.
C26_NoAuthenticatorIsHardError ==
    [][\A st \in SignatureStacks :
          (/\ authenticator.kind = "none"
           /\ SignatureKey(st.pk, st.msg) \notin DOMAIN adv_map
           /\ SetAdvice("SigToStack", st))
          => /\ pc' = "aborted"
             /\ error' = Err("FailedSignatureGeneration",
                             "No authenticator assigned to transaction host", "-")
             /\ adv_stack' = adv_stack
             /\ generated_signatures' = generated_signatures]_vars

\* The request refused after a mapped signature was pushed.
C26_Witness ==
    /\ authenticator.kind = "none"
    /\ pc = "aborted"
    /\ error = Err("FailedSignatureGeneration",
                   "No authenticator assigned to transaction host", "-")
    /\ adv_stack = <<Elt("presigned", "K2", "M1", 0, 0)>>
    /\ generated_signatures = EmptyMap

\* The events on_event answers with Ok(()) itself.
NoOpEvents ==
    {"AccountVaultBeforeAddAsset", "AccountVaultBeforeRemoveAsset",
     "AccountStorageBeforeSetItem", "AccountStorageBeforeSetMapItem",
     "AccountAfterIncrementNonce", "NoteBeforeCreated", "NoteAfterAddAsset"}

\* C24: in the root context each of the seven no-op events succeeds and
\* leaves every part of the host unchanged: the delta tracker, the note
\* builders, the advice, the signatures and the progress record.
C24_NoOpEventsChangeNothing ==
    [][\A e \in NoOpEvents : \A st \in KernelStacks(e) :
           Event(e, ROOT, st) =>
               /\ pc' = "running"
               /\ UNCHANGED <<account_delta, output_notes, adv_stack, adv_map,
                              generated_signatures, acct_procedure_index_map,
                              tx_progress, authenticator, rng>>]_vars

\* The nonce recorded by the before event, and a second callback that left
\* the host as it was.
C24_Witness ==
    /\ pc = "running"
    /\ fuel = 0
    /\ hist.nonce_events = 1
    /\ account_delta = [AccountDeltaTracker_new EXCEPT !.nonce_delta = Some(1)]
    /\ output_notes = EmptyMap
    /\ adv_stack = <<>>
    /\ tx_progress = TransactionProgress_default

\* C39: in a build without the testing feature, AccountId::new fails on the
\* seed digest exactly when the digest's last element has fewer than 24
\* trailing zeros for a regular account, or fewer than 32 for a faucet.
C39_SeedDigestThreshold ==
    (acct.via = "new" /\ ~acct.testing) =>
        LET stated == IF is_regular_account(acct.digest[1]) THEN 24 ELSE 32
        IN  (acct.res = IdErr("SeedDigestTooFewTrailingZeros"))
                <=> (digest_pow(acct.digest) < stated)

\* The interval a note-execution-start trace appends for note n at cycle c.
StartedInterval(n, c) == [note_id |-> n, start |-> Some(c), end |-> None]

\* C33 as stated: a note-execution-start trace panics and records no interval
\* when the current-note address is unset or zero, and with any non-zero
\* address it starts an interval tagged with the note identifier read from
\* that address and the current cycle.
C33_NoteExecutionStart ==
    [][\A ctx \in Contexts, mem \in TraceMemories :
          Trace("NoteExecutionStart", ctx, TraceClk, mem) =>
              IF ~mem.ptr.some \/ mem.ptr.val = ZERO
              THEN pc' = "panicked" /\ UNCHANGED tx_progress
              ELSE /\ pc' = "running"
                   /\ tx_progress' =
                         [tx_progress EXCEPT !.note_execution =
                             Append(@, StartedInterval(mem.at.val, TraceClk))]]_vars

\* C33 amended: the trace panics and records no interval when the address is
\* unset, zero, or a 32-bit address at which the memory holds nothing; it
\* fails with an error and records nothing when the address does not fit in
\* 32 bits; with a non-zero 32-bit address at which the memory holds a word
\* it starts an interval tagged with that word's note identifier and the
\* current cycle.
C33_NoteExecutionStartResolved ==
    [][\A ctx \in Contexts, mem \in TraceMemories :
          Trace("NoteExecutionStart", ctx, TraceClk, mem) =>
              LET unset == ~mem.ptr.some
                  fits == mem.ptr.some /\ Less(mem.ptr.val, <<0, 1, 0, 0>>)
                  zero == mem.ptr.some /\ mem.ptr.val = ZERO
              IN  /\ (unset \/ zero \/ (fits /\ ~mem.at.some)) =>
                        pc' = "panicked" /\ UNCHANGED tx_progress
                  /\ (mem.ptr.some /\ ~fits) =>
                        pc' = "aborted" /\ UNCHANGED tx_progress
                  /\ (fits /\ ~zero /\ mem.at.some) =>
                        /\ pc' = "running"
                        /\ tx_progress' =
                              [tx_progress EXCEPT !.note_execution =
                                  Append(@, StartedInterval(mem.at.val,
                                                            TraceClk))]]_vars

\* An interval started for note n1 at cycle 0, and the next start trace
\* panicked and left it as the only interval.
C33_Witness ==
    /\ pc = "panicked"
    /\ error.kind = "panic"
    /\ tx_progress.note_execution = <<StartedInterval("n1", 0)>>

\* C34: a note-execution-start trace with a current-note address that does
\* not fit in 32 bits returns MemoryAddressOutOfBounds carrying the address,
\* does not panic, and records nothing in the progress tracker.
C34_AddressOutOfBounds ==
    [][\A ctx \in Contexts, mem \in TraceMemories :
          (/\ Trace("NoteExecutionStart", ctx, TraceClk, mem)
           /\ mem.ptr.some
           /\ ~Less(mem.ptr.val, <<0, 1, 0, 0>>)) =>
              /\ pc' = "aborted"
              /\ error' = Err("MemoryAddressOutOfBounds",
                              ToString(mem.ptr.val), "-")
              /\ UNCHANGED tx_progress]_vars

\* The error for address 2^32 after two phases were recorded.
C34_Witness ==
    /\ pc = "aborted"
    /\ error = Err("MemoryAddressOutOfBounds", ToString(<<0, 1, 0, 0>>), "-")
    /\ tx_progress.prologue.start = Some(0)
    /\ tx_progress.prologue.end = Some(1)

Phases == {"prologue", "notes_processing", "tx_script_processing", "epilogue"}

\* C35: in every reachable state, a phase with an end cycle has a start
\* cycle, and so has every note-execution interval with an end cycle.
C35_EndOnlyAfterStart ==
    /\ \A ph \in Phases :
          tx_progress[ph].end.some => tx_progress[ph].start.some
    /\ \A i \in DOMAIN tx_progress.note_execution :
          tx_progress.note_execution[i].end.some
              => tx_progress.note_execution[i].start.some

\* C36: a trace marker emitted in a context other than the root fails with
\* an EventError and records nothing in the progress tracker.
C36_TraceOutsideRootRejected ==
    [][\A t \in TransactionTraces, ctx \in Contexts \ {ROOT},
          mem \in TraceMemories :
          Trace(t, ctx, TraceClk, mem) =>
              /\ pc' = "aborted"
              /\ error'.kind = "EventError"
              /\ UNCHANGED tx_progress]_vars

\* C37: an event id or a trace id the host does not know fails with an
\* EventError in every context, and leaves the delta tracker, the note
\* builders, the progress tracker and the advice stack unchanged.
C37_UnknownIdRejected ==
    [][/\ \A ctx \in Contexts :
             Event(UnknownEventId, ctx, DefaultStack) =>
                 /\ pc' = "aborted"
                 /\ error'.kind = "EventError"
                 /\ UNCHANGED <<account_delta, output_notes, tx_progress,
                                adv_stack>>
       /\ \A ctx \in Contexts, mem \in Memories :
             Trace(UnknownTraceId, ctx, CallbackClk, mem) =>
                 /\ pc' = "aborted"
                 /\ error'.kind = "EventError"
                 /\ UNCHANGED <<account_delta, output_notes, tx_progress,
                                adv_stack>>]_vars

\* An unknown id rejected after a phase start was recorded.
C37_Witness ==
    /\ pc = "aborted"
    /\ error \in {Err("EventError", "unknown event id", "-"),
                  Err("EventError", "unknown trace id", "-")}
    /\ tx_progress.prologue.start = Some(0)

\* What the VM sees of a callback's result r: how it ended, the error, the
\* response and the advice stack.
Returned(r) ==
    /\ pc' = (CASE r.status = "ok" -> "running"
                [] r.status = "err" -> "aborted"
                [] OTHER -> "panicked")
    /\ error' = r.err
    /\ adv_ret' = r.host.adv_ret
    /\ adv_stack' = r.host.adv_stack

\* C38: an advice-injector request other than SigToStack, and every
\* advice-extractor request, ends as the advice provider's own handling of
\* it ends (result, response, advice stack), does not call the
\* authenticator, and leaves the delta tracker, the note builders,
\* generated_signatures and the progress tracker unchanged.
C38_AdviceForwarded ==
    [][/\ \A inj \in Injectors \ {"SigToStack"}, st \in SignatureStacks :
             SetAdvice(inj, st) =>
                 /\ Returned(adv_provider_set_advice(inj, st))
                 /\ UNCHANGED <<account_delta, output_notes,
                                generated_signatures, tx_progress,
                                auth_calls, rng>>
       /\ \A ex \in Extractors :
             GetAdvice(ex) =>
                 /\ Returned(adv_provider_get_advice(ex))
                 /\ UNCHANGED <<account_delta, output_notes,
                                generated_signatures, tx_progress,
                                auth_calls, rng>>]_vars

\* A host that has signed one request and recorded a nonce: the element the
\* extractor took from the stack is returned, the signature map is as it
\* was.
C38_Witness ==
    /\ pc = "running"
    /\ adv_ret.kind = "Element"
    /\ DOMAIN generated_signatures = {SignatureKey("K1", "M1")}
    /\ account_delta.nonce_delta = Some(1)
    /\ Len(adv_stack) = Len(generated_signatures[SignatureKey("K1", "M1")]) - 1

\* C32: a push-procedure-index event for a root of the account's procedure
\* tree pushes one value, that procedure's index, onto the advice stack, and
\* an entry of the cache never changes; for a root not in the tree the event
\* fails, pushes nothing and creates no cache entry.
C32_ProcedureIndexPushed ==
    [][/\ \A p \in ProcRoots :
             Event("AccountPushProcedureIndex", ROOT,
                   [DefaultStack EXCEPT !.proc_root = p]) =>
                 IF p \in DOMAIN ProcTree
                 THEN /\ pc' = "running"
                      /\ adv_stack' =
                            Append(adv_stack,
                                   Elt("proc_idx", "-", "-", 0, ProcTree[p]))
                      /\ DOMAIN acct_procedure_index_map' =
                            DOMAIN acct_procedure_index_map \cup {p}
                 ELSE /\ pc' = "aborted"
                      /\ error'.kind = "EventError"
                      /\ UNCHANGED <<adv_stack, acct_procedure_index_map>>
       /\ \A q \in DOMAIN acct_procedure_index_map :
             /\ q \in DOMAIN acct_procedure_index_map'
             /\ acct_procedure_index_map'[q] = acct_procedure_index_map[q]]_vars

\* The index of p1 pushed twice, that of p0 between them, and then a root
\* that is not in the tree refused.
C32_Witness ==
    /\ pc = "aborted"
    /\ error.kind = "EventError"
    /\ adv_stack = <<Elt("proc_idx", "-", "-", 0, 1),
                     Elt("proc_idx", "-", "-", 0, 0),
                     Elt("proc_idx", "-", "-", 0, 1)>>
    /\ DOMAIN acct_procedure_index_map = {"p0", "p1"}

\* C31: after every step each note builder holds at most 255 assets, and an
\* add-asset event on a builder that holds 255 fails and leaves every
\* builder as it was.
C31_AssetBoundEnforced ==
    [][/\ \A i \in DOMAIN output_notes' :
             Len(output_notes'[i].assets) <= 255
       /\ \A st \in AssetBoundStacks :
             (/\ Event("NoteBeforeAddAsset", ROOT, st)
              /\ st.note_idx \in DOMAIN output_notes
              /\ Len(output_notes[st.note_idx].assets) = 255) =>
                 /\ pc' = "aborted"
                 /\ UNCHANGED output_notes]_vars

\* The builder filled to the bound, and one more asset refused.
C31_Witness ==
    /\ pc = "aborted"
    /\ error.kind = "EventError"
    /\ Len(output_notes[0].assets) = 255

=============================================================================
